---- MODULE Spec2Model ----
(***************************************************************************)
(* Effect runtime of ReShade (source/runtime.cpp): the texture registry,   *)
(* the effect load / reload / unload path, the compile queue processed by  *)
(* update_and_render_effects, technique enabling, the uniform storage      *)
(* layout, the effect cache and render_technique.                          *)
(*                                                                         *)
(* GPU handles are modelled by booleans (TRUE = a live object), effect     *)
(* source files by the effect index, and the contents of a file at the     *)
(* time it is read by a "variant" number, which also stands for the        *)
(* source hash (a changed file gives a changed hash).                      *)
(***************************************************************************)
EXTENDS Integers, Sequences, FiniteSets, TLC

(* ----------------------------- bounds ---------------------------------- *)
NumEffects == 2      \* effect files found by find_files
MaxCalls == 1        \* reload and enable / disable calls made in one behaviour
NumViews == 1        \* distinct external views handed to update_texture_bindings

Effects == 1..NumEffects

(* size_t maximum, the "not loading" value of _reload_remaining_effects *)
SizeMax == -1

(* --------------------- effect files (parser output) -------------------- *)
(* What the front end yields for a variant of a file: whether             *)
(* preprocessing and parsing succeed, the declared textures and the        *)
(* techniques (number of passes, "enabled" annotation).  Every pass        *)
(* samples every texture the module declares.                              *)
Tex(n, s) == [name |-> n, semantic |-> s]
Tech(p, a) == [passes |-> p, annot_enabled |-> a, timeout |-> FALSE]
(* a technique that is enabled by annotation and has a "timeout" annotation *)
TechTimeout(p) == [passes |-> p, annot_enabled |-> TRUE, timeout |-> TRUE]

Module(v) ==
    CASE v = 1 -> [pp_ok |-> TRUE, parse_ok |-> TRUE,
                   textures |-> <<Tex("T", "")>>,
                   techniques |-> <<Tech(2, FALSE)>>]
      [] v = 2 -> [pp_ok |-> TRUE, parse_ok |-> TRUE,
                   textures |-> <<>>,
                   techniques |-> <<Tech(1, TRUE)>>]
      [] v = 3 -> [pp_ok |-> TRUE, parse_ok |-> FALSE,
                   textures |-> <<>>,
                   techniques |-> <<>>]
      [] v = 4 -> [pp_ok |-> TRUE, parse_ok |-> TRUE,
                   textures |-> <<Tex("D", "DEPTH"), Tex("T", "")>>,
                   techniques |-> <<Tech(1, FALSE)>>]
      [] v = 5 -> [pp_ok |-> TRUE, parse_ok |-> TRUE,
                   textures |-> <<>>,
                   techniques |-> <<TechTimeout(1), Tech(1, FALSE)>>]
      [] v = 6 -> [pp_ok |-> TRUE, parse_ok |-> TRUE,
                   textures |-> <<Tex("T", "COLOR")>>,
                   techniques |-> <<Tech(1, TRUE)>>]
      [] OTHER -> [pp_ok |-> TRUE, parse_ok |-> FALSE,
                   textures |-> <<>>,
                   techniques |-> <<>>]

(* the variants the files take in the registry behaviours and in the     *)
(* semantic-binding behaviours                                            *)
MainVariants == {1, 2, 3}
BindVariants == {3, 4}

VARIABLES
    effects,            \* _effects: sequence of effect records
    textures,           \* _textures
    techniques,         \* _techniques
    queue,              \* _reload_compile_queue
    remaining,          \* _reload_remaining_effects
    pending,            \* file indices the worker threads have not loaded yet
    reloading,          \* effect index between unload_effect and load_effect of reload_effect, else 0
    started,            \* FALSE until the first update_and_render_effects (_framecount == 0)
    bindings,           \* _texture_semantic_bindings: semantic -> view (NullView = no entry)
    desc,               \* device: live texture descriptors -> view written to them
    dev_log,            \* device calls issued by the last operation
    last,               \* what the last operation did (observation record)
    budget,             \* reload and enable / disable calls left in the behaviour
    in_flight,          \* commands were recorded since the device was last idle
    no_effect_cache,    \* _no_effect_cache (NoEffectCache of the configuration)
    cache_files,        \* the effect cache directory: <<file, hash>> of the .i files in it
    loaded,             \* what the last direct load_effect call did (observation record)
    variable,           \* a uniform variable (type, offset, size) of an effect
    uniform_data_storage, \* the uniform_data_storage of that effect, in 4-byte words
    ucalls,             \* the last set_uniform_value / get_uniform_value calls and their buffers
    render,             \* render_technique in progress: its locals and the commands recorded
    transition,         \* preset transition: clocks of on_present, the flag and a float uniform
    split,              \* load_effects: the file count, the worker count and what each worker loaded
    threads             \* worker threads and the main thread inside the reload code, step by step

registry_vars == <<effects, textures, techniques, queue, remaining, pending, reloading,
                   started, bindings, desc, dev_log, last, budget, in_flight>>
cache_vars == <<no_effect_cache, cache_files, loaded>>
uniform_vars == <<variable, uniform_data_storage, ucalls>>
render_vars == <<render>>

transition_vars == <<transition>>
split_vars == <<split>>
thread_vars == <<threads>>
other_vars == <<transition_vars, split_vars, thread_vars>>

vars == <<registry_vars, cache_vars, uniform_vars, render_vars, other_vars>>

(* ------------------------------ records -------------------------------- *)
(* effect = {} : a value-initialized effect record *)
EmptyEffect ==
    [source_hash |-> 0, compiled |-> FALSE, preprocessed |-> FALSE,
     errors |-> {}, rendering |-> 0,
     query_heap |-> FALSE, cb |-> FALSE, layout |-> FALSE, sets |-> FALSE,
     semantic_to_binding |-> <<>>,
     merged |-> FALSE]      \* the last load_effect ran the merge step (not a field of the code)

NullView == "null"            \* a resource_view with handle 0
Views == {"view" \o ToString(i) : i \in 1..NumViews}
EmptyView == "empty"          \* _empty_texture_view
BackBufferView == "bb"        \* _backbuffer_texture_view
Semantics == {"COLOR", "DEPTH"}

Range(s) == {s[i] : i \in DOMAIN s}
Contains(s, x) == \E i \in DOMAIN s : s[i] = x
RemoveAll(s, x) == SelectSeq(s, LAMBDA y : y # x)
Reverse(s) == [i \in 1..Len(s) |-> s[Len(s) + 1 - i]]

Min(S) == CHOOSE x \in S : \A y \in S : x <= y

(* ------------------- enable_technique / disable_technique -------------- *)
(* Both work on a technique record t, the effect list and the compile     *)
(* queue, and give back the three.  time_left is held as "a timeout is    *)
(* running"; the timing averages are not part of this state.              *)
(* enable_technique without the check of the effect's compiled flag *)
EnableTechniqueUnchecked(t, effs, q) ==
    LET e == t.effect_index IN
    [t    |-> [t EXCEPT !.enabled = TRUE, !.time_left = t.timeout],
     q    |-> IF t.passes_data = <<>> /\ ~Contains(q, e) THEN Append(q, e) ELSE q,
     effs |-> IF ~t.enabled THEN [effs EXCEPT ![e].rendering = @ + 1] ELSE effs]

(* enable_technique that never queues the effect for initialization *)
EnableTechniqueUnqueued(t, effs, q) ==
    LET e == t.effect_index IN
    IF ~effs[e].compiled
    THEN [t |-> t, effs |-> effs, q |-> q]
    ELSE [t    |-> [t EXCEPT !.enabled = TRUE, !.time_left = t.timeout],
          q    |-> q,
          effs |-> IF ~t.enabled THEN [effs EXCEPT ![e].rendering = @ + 1] ELSE effs]

(* enable_technique that increments the count whatever the technique's state *)
EnableTechniqueCounting(t, effs, q) ==
    LET e == t.effect_index IN
    IF ~effs[e].compiled
    THEN [t |-> t, effs |-> effs, q |-> q]
    ELSE [t    |-> [t EXCEPT !.enabled = TRUE, !.time_left = t.timeout],
          q    |-> IF t.passes_data = <<>> /\ ~Contains(q, e) THEN Append(q, e) ELSE q,
          effs |-> [effs EXCEPT ![e].rendering = @ + 1]]

EnableTechnique(t, effs, q) ==
    LET e == t.effect_index IN
    IF ~effs[e].compiled
    THEN [t |-> t, effs |-> effs, q |-> q]      \* cannot enable techniques that failed to compile
    ELSE [t    |-> [t EXCEPT !.enabled = TRUE, !.time_left = t.timeout],
          q    |-> IF t.passes_data = <<>> /\ ~Contains(q, e) THEN Append(q, e) ELSE q,
          effs |-> IF ~t.enabled THEN [effs EXCEPT ![e].rendering = @ + 1] ELSE effs]

(* disable_technique that decrements the count whatever the technique's state *)
DisableTechniqueAlways(t, effs) ==
    [t    |-> [t EXCEPT !.enabled = FALSE, !.time_left = FALSE],
     effs |-> [effs EXCEPT ![t.effect_index].rendering = @ - 1]]

DisableTechnique(t, effs) ==
    [t    |-> [t EXCEPT !.enabled = FALSE, !.time_left = FALSE],
     effs |-> IF t.enabled THEN [effs EXCEPT ![t.effect_index].rendering = @ - 1] ELSE effs]

(* --------------------------- load_effect ------------------------------- *)
NewTexture(d, e) ==
    [name |-> d.name, semantic |-> d.semantic, effect_index |-> e, shared |-> <<e>>,
     resource |-> FALSE, render_target |-> FALSE, storage_access |-> FALSE]

(* The texture loop of the merge step, from declaration i on.  No module  *)
(* of this model declares a pooled texture, so the pooled branch is never *)
(* taken.                                                                  *)
RECURSIVE MergeTextures(_, _, _, _)
MergeTextures(decls, i, e, texs) ==
    IF i > Len(decls) THEN [textures |-> texs, compiled |-> TRUE, errors |-> {}]
    ELSE LET d == decls[i]
             hits == {k \in DOMAIN texs : texs[k].name = d.name}
         IN  IF hits # {}
             THEN LET k == Min(hits) IN
                  IF d.semantic # texs[k].semantic
                  THEN [textures |-> texs, compiled |-> FALSE, errors |-> {"semantic"}]
                  ELSE MergeTextures(decls, i + 1, e,
                         [texs EXCEPT ![k].shared = IF Contains(@, e) THEN @ ELSE Append(@, e),
                                      ![k].render_target = TRUE,
                                      ![k].storage_access = TRUE])
             ELSE MergeTextures(decls, i + 1, e, Append(texs, NewTexture(d, e)))

(* The technique loop of the merge step, from technique i on. *)
RECURSIVE MergeTechniques(_, _, _, _, _, _)
MergeTechniques(infos, i, e, effs, techs, q) ==
    IF i > Len(infos) THEN [effs |-> effs, techs |-> techs, q |-> q]
    ELSE LET t0 == [effect_index |-> e, name |-> i, passes |-> infos[i].passes,
                    annot_enabled |-> infos[i].annot_enabled,
                    timeout |-> infos[i].timeout, time_left |-> FALSE,
                    enabled |-> FALSE, passes_data |-> <<>>]
             r == IF infos[i].annot_enabled THEN EnableTechnique(t0, effs, q)
                  ELSE [t |-> t0, effs |-> effs, q |-> q]
         IN  MergeTechniques(infos, i + 1, e, r.effs, Append(techs, r.t), r.q)

(* load_effect(file e, effect index e, preprocess_required = force) when  *)
(* the file currently holds variant v.  cache_hit is the result           *)
(* load_effect_cache would give, save_ok the result of save_effect_cache. *)
(* Effect skipping (_effect_load_skipping) is off.  A failed parse is     *)
(* taken to report at least one error line.                               *)
LoadEffect(e, v, force, cache_hit, save_ok, effs, texs, techs, q, rem) ==
    LET m    == Module(v)
        eff0 == IF effs[e].source_hash # v
                THEN [EmptyEffect EXCEPT !.source_hash = v]
                ELSE effs[e]
        pp_invoked   == ~eff0.preprocessed /\ (force \/ ~cache_hit)
        cache_read   == ~eff0.preprocessed /\ ~force /\ cache_hit
        preprocessed == IF pp_invoked THEN m.pp_ok ELSE eff0.preprocessed
        has_source   == (pp_invoked /\ m.pp_ok) \/ cache_read
        source_cached == IF pp_invoked THEN m.pp_ok /\ save_ok ELSE cache_read
        parsed       == ~eff0.compiled /\ has_source
        compiled     == IF parsed THEN m.parse_ok ELSE eff0.compiled
        errors       == eff0.errors
                          \cup (IF pp_invoked /\ ~m.pp_ok THEN {"preprocess"} ELSE {})
                          \cup (IF parsed /\ ~m.parse_ok THEN {"parse"} ELSE {})
        merge == compiled /\ (preprocessed \/ source_cached)
        eff1 == [eff0 EXCEPT !.preprocessed = preprocessed, !.compiled = compiled,
                             !.errors = errors, !.merged = merge]
        mt   == MergeTextures(m.textures, 1, e, texs)
        eff2 == [eff1 EXCEPT !.compiled = mt.compiled, !.errors = @ \cup mt.errors]
        mq   == MergeTechniques(m.techniques, 1, e, [effs EXCEPT ![e] = eff2], techs, q)
    IN  [effects    |-> IF merge THEN mq.effs ELSE [effs EXCEPT ![e] = eff1],
         textures   |-> IF merge THEN mt.textures ELSE texs,
         techniques |-> IF merge THEN mq.techs ELSE techs,
         queue      |-> IF merge THEN mq.q ELSE q,
         remaining  |-> IF rem # 0 /\ rem # SizeMax THEN rem - 1 ELSE 0,
         pp_invoked |-> pp_invoked, cache_read |-> cache_read, parsed |-> parsed,
         source_cached |-> source_cached, merged |-> merge,
         ok         |-> IF merge THEN mt.compiled ELSE FALSE]

(* ----------------------- texture creation / lookup --------------------- *)
(* destroy_texture: all handles of the texture become null *)
DestroyTexture(tex) == [tex EXCEPT !.resource = FALSE]

(* init_texture(tex); created says whether the device creates the        *)
(* resource and its views.  A semantic texture allocates nothing.  (The   *)
(* resource and its views are one handle here: created or not.)           *)
InitTextureAnySemantic(tex, created) ==
    IF ~created THEN [tex |-> tex, ok |-> FALSE]
    ELSE [tex |-> [tex EXCEPT !.resource = TRUE], ok |-> TRUE]

InitTexture(tex, created) ==
    IF tex.semantic # "" THEN [tex |-> tex, ok |-> TRUE]
    ELSE IF ~created THEN [tex |-> tex, ok |-> FALSE]
    ELSE [tex |-> [tex EXCEPT !.resource = TRUE], ok |-> TRUE]

(* The texture creation loop at the head of the compile-queue branch, for *)
(* the popped effect e, from list position i on.  The device refuses the  *)
(* texture at position fail_at (0 = none).                                *)
RECURSIVE InitTextures(_, _, _, _)
InitTextures(texs, i, e, fail_at) ==
    IF i > Len(texs) THEN [textures |-> texs, ok |-> TRUE]
    ELSE IF texs[i].resource \/ (texs[i].effect_index # e /\ Len(texs[i].shared) <= 1)
         THEN InitTextures(texs, i + 1, e, fail_at)
         ELSE LET r == InitTexture(texs[i], i # fail_at) IN
              IF r.ok
              THEN InitTextures([texs EXCEPT ![i] = r.tex], i + 1, e, fail_at)
              ELSE [textures |-> [texs EXCEPT ![i] = r.tex], ok |-> FALSE]

(* The view a descriptor gets for the texture a sampler names:            *)
(* look_up_texture_by_name followed by the semantic switch of init_effect.*)
(* "invalid" stands for what the lookup yields when no texture with that  *)
(* name is allocated (the assert fails, the end iterator is used).        *)
ResolveView(name, texs, bnd) ==
    LET hits == {k \in DOMAIN texs : texs[k].name = name
                                      /\ (texs[k].resource \/ texs[k].semantic # "")}
    IN  IF hits = {} THEN "invalid"
        ELSE LET tex == texs[Min(hits)] IN
             IF tex.semantic = "COLOR" THEN BackBufferView
             ELSE IF tex.semantic # ""
                  THEN (IF bnd[tex.semantic] # NullView THEN bnd[tex.semantic] ELSE EmptyView)
                  ELSE "srv:" \o name

(* ----------------------------- init_effect ----------------------------- *)
(* The descriptor of the sampler for texture n in pass p of technique     *)
(* tn of effect e (one entry of the pass's texture table).                *)
DescKey(e, tn, p, n) == <<e, tn, p, n>>

SamplerNames(m) == {m.textures[i].name : i \in DOMAIN m.textures}
TotalPasses(m) ==
    LET RECURSIVE Sum(_)
        Sum(i) == IF i > Len(m.techniques) THEN 0 ELSE m.techniques[i].passes + Sum(i + 1)
    IN  Sum(1)

(* Where init_effect fails in this model: nowhere, before any object      *)
(* exists (shader compilation or the query pool), at the pipeline layout, *)
(* or at the pipeline of the k-th pass.                                   *)
FailPoints(m) == {<<"none", 0>>, <<"early", 0>>, <<"layout", 0>>}
                    \cup {<<"pipeline", k>> : k \in 1..TotalPasses(m)}

(* The loop over _techniques of init_effect, from list position i on;     *)
(* done counts the passes handled so far, fail_k is the pass whose        *)
(* pipeline creation fails (0 = none).  sb collects the entries appended  *)
(* to effect.texture_semantic_to_binding.                                 *)
RECURSIVE InitPasses(_, _, _, _, _, _, _)
InitPasses(techs, i, e, m, done, fail_k, sb) ==
    IF i > Len(techs) THEN [techs |-> techs, sb |-> sb, ok |-> TRUE]
    ELSE IF techs[i].passes_data # <<>> \/ techs[i].effect_index # e
         THEN InitPasses(techs, i + 1, e, m, done, fail_k, sb)
         ELSE LET n      == techs[i].passes
                  fails  == fail_k > done /\ fail_k <= done + n
                  good   == IF fails THEN fail_k - done - 1 ELSE n
                  pd     == [p \in 1..n |-> p <= good]
                  sems   == SelectSeq(m.textures, LAMBDA d : d.semantic \notin {"", "COLOR"})
                  RECURSIVE Push(_, _)
                  Push(p, acc) ==
                      IF p > good THEN acc
                      ELSE Push(p + 1, acc \o
                             [j \in 1..Len(sems) |->
                                [semantic |-> sems[j].semantic,
                                 set |-> <<e, techs[i].name, p>>, index |-> sems[j].name]])
                  techs1 == [techs EXCEPT ![i].passes_data = pd]
              IN  IF fails
                  THEN [techs |-> techs1, sb |-> Push(1, sb), ok |-> FALSE]
                  ELSE InitPasses(techs1, i + 1, e, m, done + n, fail_k, Push(1, sb))

(* init_effect(e) with the device failing at fail; gives the new effect   *)
(* list, technique list and descriptor state, and the result.             *)
InitEffect(e, fail, effs, techs, texs, bnd, dsc) ==
    LET m  == Module(effs[e].source_hash)
        live == UNION {{DescKey(e, tn, p, n) : p \in 1..m.techniques[tn].passes,
                                                n \in SamplerNames(m)} :
                       tn \in DOMAIN m.techniques}
        created == [k \in live \cup DOMAIN dsc |-> IF k \in live THEN "undef" ELSE dsc[k]]
        ip == InitPasses(techs, 1, e, m, 0, IF fail[1] = "pipeline" THEN fail[2] ELSE 0,
                         effs[e].semantic_to_binding)
        written == [k \in DOMAIN created |->
                      IF k \in live THEN ResolveView(k[4], texs, bnd) ELSE created[k]]
    IN  IF fail[1] = "early"
        THEN [effs |-> effs, techs |-> techs, desc |-> dsc, ok |-> FALSE]
        ELSE IF fail[1] = "layout"
        THEN [effs |-> [effs EXCEPT ![e].query_heap = TRUE, ![e].cb = TRUE, ![e].sets = TRUE],
              techs |-> techs, desc |-> created, ok |-> FALSE]
        ELSE [effs |-> [effs EXCEPT ![e].query_heap = TRUE, ![e].cb = TRUE, ![e].sets = TRUE,
                                    ![e].layout = TRUE, ![e].semantic_to_binding = ip.sb],
              techs |-> ip.techs,
              desc |-> IF ip.ok THEN written ELSE created,
              ok |-> ip.ok]

(* ------------------------ unload_effect / unload_effects --------------- *)
(* The descriptors of the texture tables that the passes_data of the      *)
(* techniques of the effects in E refer to.                               *)
AssignedKeys(techs, E, dsc) ==
    {k \in DOMAIN dsc :
        \E i \in DOMAIN techs :
            /\ techs[i].effect_index = k[1] /\ k[1] \in E
            /\ techs[i].name = k[2]
            /\ k[3] <= Len(techs[i].passes_data)
            /\ techs[i].passes_data[k[3]]}

(* What an operation destroyed: the textures whose live handles went, with *)
(* the shared list they had at that moment.                                *)
Destroyed(tex) == [name |-> tex.name, owner |-> tex.effect_index, shared |-> tex.shared]

(* unload_effect(e) that removes the textures e created, shared or not *)
UnloadEffectOwned(e, effs, texs, techs, dsc) ==
    LET gone  == AssignedKeys(techs, {e}, dsc)
        texs1 == [i \in DOMAIN texs |-> [texs[i] EXCEPT !.shared = RemoveAll(@, e)]]
        dead  == {j \in DOMAIN texs1 : texs1[j].shared = <<>> \/ texs1[j].effect_index = e}
    IN  [effs  |-> [effs EXCEPT ![e].cb = FALSE, ![e].layout = FALSE, ![e].sets = FALSE,
                                ![e].query_heap = FALSE, ![e].rendering = 0],
         texs  |-> SelectSeq(texs1, LAMBDA t : t.shared # <<>> /\ t.effect_index # e),
         techs |-> SelectSeq(techs, LAMBDA t : t.effect_index # e),
         desc  |-> [k \in DOMAIN dsc \ gone |-> dsc[k]],
         destroyed |-> {Destroyed(texs1[i]) : i \in {j \in dead : texs1[j].resource}}]

(* unload_effect(e) *)
UnloadEffect(e, effs, texs, techs, dsc) ==
    LET gone  == AssignedKeys(techs, {e}, dsc)
        texs1 == [i \in DOMAIN texs |-> [texs[i] EXCEPT !.shared = RemoveAll(@, e)]]
    IN  [effs  |-> [effs EXCEPT ![e].cb = FALSE, ![e].layout = FALSE, ![e].sets = FALSE,
                                ![e].query_heap = FALSE, ![e].rendering = 0],
         texs  |-> SelectSeq(texs1, LAMBDA t : t.shared # <<>>),
         techs |-> SelectSeq(techs, LAMBDA t : t.effect_index # e),
         desc  |-> [k \in DOMAIN dsc \ gone |-> dsc[k]],
         destroyed |-> {Destroyed(texs1[i]) : i \in {j \in DOMAIN texs1 :
                           texs1[j].shared = <<>> /\ texs1[j].resource}}]

(* unload_effects(): everything goes; the compile queue is not touched *)
UnloadEffects(effs, texs, techs, dsc) ==
    LET gone == AssignedKeys(techs, Effects, dsc) IN
    [effs  |-> <<>>, texs |-> <<>>, techs |-> <<>>,
     desc  |-> [k \in DOMAIN dsc \ gone |-> dsc[k]],
     destroyed |-> {Destroyed(texs[i]) : i \in {j \in DOMAIN texs : texs[j].resource}}]

(* ------------------------- load_current_preset ------------------------- *)
(* The technique loop of load_current_preset: the preset lists the        *)
(* techniques of the effects in pl.  (Technique sorting leaves the order  *)
(* as it is when the preset has no sorting list; uniform values are not   *)
(* part of this state.)                                                   *)
RECURSIVE ApplyPreset(_, _, _, _, _)
ApplyPreset(pl, i, effs, techs, q) ==
    IF i > Len(techs) THEN [effs |-> effs, techs |-> techs, q |-> Reverse(q)]
    ELSE IF techs[i].annot_enabled \/ techs[i].effect_index \in pl
         THEN LET r == EnableTechnique(techs[i], effs, q) IN
              ApplyPreset(pl, i + 1, r.effs, [techs EXCEPT ![i] = r.t], r.q)
         ELSE LET r == DisableTechnique(techs[i], effs) IN
              ApplyPreset(pl, i + 1, r.effs, [techs EXCEPT ![i] = r.t], q)

(* ----------------------- compile-queue processing ---------------------- *)
(* The branch of update_and_render_effects that pops one effect from the  *)
(* queue, creates its textures, calls init_effect and cleans up after a   *)
(* failure.  tex_fail (a list position, 0 = none) and fail are what the   *)
(* device refuses to create.                                              *)
(* a cleanup that leaves the techniques of the failed effect as they are *)
DisableNone(e, i, effs, techs) == [effs |-> effs, techs |-> techs]

RECURSIVE DisableAll(_, _, _, _)
DisableAll(e, i, effs, techs) ==
    IF i > Len(techs) THEN [effs |-> effs, techs |-> techs]
    ELSE IF techs[i].effect_index = e
         THEN LET r == DisableTechnique(techs[i], effs) IN
              DisableAll(e, i + 1, r.effs, [techs EXCEPT ![i] = r.t])
         ELSE DisableAll(e, i + 1, effs, techs)

(* which textures the cleanup after a failed initialization destroys *)
CleanupDestroys(tex, e) == tex.effect_index = e /\ Len(tex.shared) <= 1

ProcessQueue(tex_fail, fail, effs, texs, techs, q, bnd, dsc) ==
    LET e     == q[Len(q)]
        q1    == SubSeq(q, 1, Len(q) - 1)
        it    == InitTextures(texs, 1, e, tex_fail)
        effs1 == IF it.ok THEN effs
                 ELSE [effs EXCEPT ![e].compiled = FALSE, ![e].errors = @ \cup {"texture"}]
        call  == effs1[e].compiled
        ie    == IF call THEN InitEffect(e, fail, effs1, techs, it.textures, bnd, dsc)
                 ELSE [effs |-> effs1, techs |-> techs, desc |-> dsc, ok |-> FALSE]
        effs2 == [ie.effs EXCEPT ![e].compiled = ie.ok]
        texs3 == [i \in DOMAIN it.textures |->
                    IF CleanupDestroys(it.textures[i], e)
                    THEN DestroyTexture(it.textures[i]) ELSE it.textures[i]]
        da    == DisableAll(e, 1, effs2, ie.techs)
        m     == Module(effs[e].source_hash)
        unallocated == {m.textures[i].name : i \in {j \in DOMAIN m.textures :
                           /\ m.textures[j].semantic = ""
                           /\ ~\E k \in DOMAIN it.textures :
                                  /\ it.textures[k].name = m.textures[j].name
                                  /\ it.textures[k].resource}}
    IN  [effect |-> e, q |-> q1, init_called |-> call, ok |-> ie.ok, desc |-> ie.desc,
         missing |-> IF call THEN unallocated ELSE {},
         effs  |-> IF ie.ok THEN effs2 ELSE da.effs,
         techs |-> IF ie.ok THEN ie.techs ELSE da.techs,
         texs  |-> IF ie.ok THEN it.textures ELSE texs3,
         destroyed |-> IF ie.ok THEN {}
                       ELSE {Destroyed(it.textures[i]) : i \in {j \in DOMAIN it.textures :
                               /\ CleanupDestroys(it.textures[j], e)
                               /\ it.textures[j].resource}}]

(* ------------------------- what render sees ---------------------------- *)
(* The render loop of update_and_render_effects calls render_technique for *)
(* the techniques that are enabled and have passes_data.                   *)
Eligible(t) == t.enabled /\ t.passes_data # <<>>

(* all GPU objects render_technique uses for t are there *)
Complete(t, effs) ==
    /\ \A p \in DOMAIN t.passes_data : t.passes_data[p]
    /\ Len(t.passes_data) = t.passes
    /\ effs[t.effect_index].layout /\ effs[t.effect_index].cb
    /\ effs[t.effect_index].sets /\ effs[t.effect_index].query_heap

(* What the last operation did, for the operations that destroy objects  *)
(* or process the compile queue (not a field of the code).                *)
NoObs == [op |-> "none", effect |-> 0, init_called |-> FALSE, ok |-> TRUE,
          destroyed |-> {}, arg |-> <<>>,
          frame |-> "", rendered |-> {}, uniforms |-> {}, missing |-> {}]

(* a device or command list call in dev_log *)
Call(c) == [call |-> c, keys |-> <<>>, view |-> NullView]

(* The branch update_and_render_effects takes on the loading state. *)
FrameBranchNoLoadingCheck(rem, q) ==
    IF rem = 0 THEN "finish"
    ELSE IF q # <<>> THEN "compile"
    ELSE "idle"

FrameBranch(rem, q) ==
    IF rem = 0 THEN "finish"
    ELSE IF rem # SizeMax THEN "loading"      \* return: cannot render while loading
    ELSE IF q # <<>> THEN "compile"
    ELSE "idle"

(* whether the call goes on to the uniform update and the render loop *)
FrameRendersAlways(branch) == TRUE

FrameRenders(branch) == branch # "loading"

(* The render loop over _techniques from position i on: render_technique  *)
(* for the enabled techniques with passes_data, then the timeout          *)
(* countdown, which runs out in this frame for the techniques in expire.  *)
RECURSIVE RenderLoop(_, _, _, _, _)
RenderLoop(techs, i, effs, expire, rendered) ==
    IF i > Len(techs) THEN [techs |-> techs, effs |-> effs, rendered |-> rendered]
    ELSE IF ~Eligible(techs[i]) THEN RenderLoop(techs, i + 1, effs, expire, rendered)
    ELSE LET r == IF techs[i].time_left /\ i \in expire
                  THEN DisableTechnique(techs[i], effs)
                  ELSE [t |-> techs[i], effs |-> effs]
         IN  RenderLoop([techs EXCEPT ![i] = r.t], i + 1, r.effs, expire,
                        rendered \cup {<<techs[i].effect_index, techs[i].name>>})

(* The part of update_and_render_effects after the loading branches:      *)
(* special uniforms of the effects that are rendering, the barriers and   *)
(* the render loop.                                                       *)
RenderPart(techs, effs, expire) ==
    LET r == RenderLoop(techs, 1, effs, expire, {}) IN
    [techs |-> r.techs, effs |-> r.effs, rendered |-> r.rendered,
     uniforms |-> {e \in DOMAIN effs : effs[e].rendering # 0},
     cmds |-> <<Call("barrier")>>
                \o [j \in 1..Cardinality(r.rendered) |-> Call("render_technique")]
                \o <<Call("barrier")>>]

EmptyDesc == [k \in {} |-> 0]

(* ------------------------ uniform value storage ------------------------- *)
(* The raw overloads of get_uniform_value / set_uniform_value.  Offsets   *)
(* and sizes are in bytes as in the code; the storage and the data        *)
(* buffers are held as 4-byte words (word w is at byte 4 * w).  A type    *)
(* gives rows, cols, whether it is a matrix and whether it is an array    *)
(* (what type.is_matrix() / is_array() answer).                           *)
MaxArrayLength == 2     \* longest uniform array
MaxUniformCalls == 2    \* set_uniform_value / get_uniform_value calls in one behaviour

UniformType(r, c, m, arr, len) ==
    [rows |-> r, cols |-> c, is_matrix |-> m, is_array |-> arr, array_length |-> len]

(* matrices of 1..4 rows and columns; scalars and vectors (one column);   *)
(* each alone or as an array                                              *)
UniformTypes ==
    {UniformType(r, c, m, arr, len) :
        r \in 1..4, c \in 1..4, m \in BOOLEAN, arr \in BOOLEAN, len \in 0..MaxArrayLength}

ValidType(t) ==
    /\ (~t.is_matrix => t.cols = 1)
    /\ (t.is_array <=> t.array_length # 0)

Components(t) == t.rows * t.cols

ArrayLength(v) == IF v.type.is_array THEN v.type.array_length ELSE 1

(* the bytes the variable takes when packed, and with every row or        *)
(* element padded to 16 bytes                                             *)
PackedSize(t) == 4 * Components(t) * (IF t.is_array THEN t.array_length ELSE 1)
PaddedSize(t) == 16 * t.rows * (IF t.is_array THEN t.array_length ELSE 1)

Max(S) == CHOOSE x \in S : \A y \in S : x >= y

(* words of storage that hold the variable whatever branch copies it *)
StorageWords(v) == v.offset \div 4 + Max({PaddedSize(v.type), v.size}) \div 4

(* words of a data buffer *)
DataWords == 4 * 4 * MaxArrayLength + 1

(* a tightly packed layout: rows of cols components, no padding *)
GetStorageOffsetPacked(v, a, row, col) ==
    v.offset + (a * (v.type.rows * v.type.cols) + (row * v.type.cols + col)) * 4

(* storage offset of component (a, row, col) of a matrix, as written in   *)
(* get_uniform_value and in set_uniform_value                             *)
GetStorageOffset(v, a, row, col) ==
    v.offset + (a * (v.type.rows * 4) + (row * 4 + col)) * 4

SetStorageOffset(v, a, row, col) ==
    v.offset + (a * v.type.rows * 4 + (row * 4 + col)) * 4

(* The loop nest of the matrix branch, entered at (a, row, col) with the  *)
(* copy counter at i; words = size / 4.  Gives the copies made, in order, *)
(* each with the byte offsets into the data buffer and the storage.       *)
RECURSIVE MatrixCopies(_, _, _, _, _, _, _, _, _)
MatrixCopies(v, dir, words, base_index, a, row, col, i, acc) ==
    IF a >= ArrayLength(v) THEN acc
    ELSE IF row >= v.type.rows
         THEN MatrixCopies(v, dir, words, base_index, a + 1, 0, 0, i, acc)
    ELSE IF i < words /\ col < v.type.cols
         THEN MatrixCopies(v, dir, words, base_index, a, row, col + 1, i + 1,
                Append(acc,
                  [data    |-> ((a - base_index) * Components(v.type)
                                  + (row * v.type.cols + col)) * 4,
                   storage |-> IF dir = "get" THEN GetStorageOffset(v, a, row, col)
                               ELSE SetStorageOffset(v, a, row, col)]))
    ELSE MatrixCopies(v, dir, words, base_index, a, row + 1, 0, i, acc)

(* the loop nest of the array branch *)
RECURSIVE ArrayCopies(_, _, _, _, _, _, _)
ArrayCopies(v, words, base_index, a, row, i, acc) ==
    IF a >= ArrayLength(v) THEN acc
    ELSE IF i < words /\ row < v.type.rows
         THEN ArrayCopies(v, words, base_index, a, row + 1, i + 1,
                Append(acc,
                  [data    |-> ((a - base_index) * Components(v.type) + row) * 4,
                   storage |-> v.offset + (a * 4 + row) * 4]))
    ELSE ArrayCopies(v, words, base_index, a + 1, 0, i, acc)

(* the copies one call makes: size clamped to variable.size, nothing for  *)
(* a base index outside the array, then one of the three branches         *)
UniformCopies(v, dir, size, base_index) ==
    LET words == Min({size, v.size}) \div 4 IN
    IF base_index >= ArrayLength(v) THEN <<>>
    ELSE IF v.type.is_matrix
         THEN MatrixCopies(v, dir, words, base_index, base_index, 0, 0, 0, <<>>)
    ELSE IF ArrayLength(v) > 1
         THEN ArrayCopies(v, words, base_index, base_index, 0, 0, <<>>)
    ELSE [d \in 1..words |-> [data |-> (d - 1) * 4, storage |-> v.offset + (d - 1) * 4]]

(* set_uniform_value(variable, data, size, base_index): the new storage *)
SetUniformValue(v, data, size, base_index, storage) ==
    LET cs == UniformCopies(v, "set", size, base_index) IN
    [w \in DOMAIN storage |->
        LET hits == {j \in DOMAIN cs : cs[j].storage = 4 * w} IN
        IF hits = {} THEN storage[w] ELSE data[cs[Max(hits)].data \div 4]]

(* get_uniform_value(variable, data, size, base_index): the data buffer   *)
(* after the call                                                         *)
GetUniformValue(v, data, size, base_index, storage) ==
    LET cs == UniformCopies(v, "get", size, base_index) IN
    [d \in DOMAIN data |->
        LET hits == {j \in DOMAIN cs : cs[j].data = 4 * d} IN
        IF hits = {} THEN data[d] ELSE storage[cs[Max(hits)].storage \div 4]]

(* no uniform call made yet *)
NoCalls == [op |-> "none", calls |-> 0, size |-> 0, base_index |-> 0, data |-> <<>>, out |-> <<>>,
            set_size |-> 0, set_base_index |-> 0]

(* a buffer of values to write (all different, none 0) and the buffer a   *)
(* read starts from                                                       *)
InputData(seed) == [d \in 0..(DataWords - 1) |-> 100 * seed + d]
BlankData == [d \in 0..(DataWords - 1) |-> -1]

(* ----------------------------- effect cache ----------------------------- *)
(* a cache lookup that does not look at _no_effect_cache *)
LoadEffectCacheIgnoringOption(file, hash, no_cache, files, read_ok) ==
    <<file, hash>> \in files /\ read_ok

(* load_effect_cache(source_file, hash, source): TRUE when the cache is   *)
(* on, the .i file of (file, hash) is there and it is read; read_ok is    *)
(* whether opening and reading it works                                   *)
LoadEffectCache(file, hash, no_cache, files, read_ok) ==
    IF no_cache THEN FALSE
    ELSE <<file, hash>> \in files /\ read_ok

(* save_effect_cache(source_file, hash, source): the file is created only *)
(* if it is not there yet (CREATE_NEW); write_ok is whether writing works *)
SaveEffectCache(file, hash, no_cache, files, write_ok) ==
    IF no_cache THEN [ok |-> FALSE, files |-> files]
    ELSE IF <<file, hash>> \in files THEN [ok |-> FALSE, files |-> files]
    ELSE [ok |-> write_ok, files |-> files \cup {<<file, hash>>}]

(* no direct load_effect call observed *)
NotLoaded == [effect |-> 0]

(* --------------------------- render_technique --------------------------- *)
MaxPasses == 3          \* passes of the technique handed to render_technique
MaxRenderTargets == 2   \* render targets a pass declares

(* a pass: a compute pass, or a graphics pass with its number of declared *)
(* render targets (pass_data.num_render_targets)                          *)
PassKinds == {[cs |-> TRUE, num_render_targets |-> 0]}
                \cup {[cs |-> FALSE, num_render_targets |-> n] : n \in 0..MaxRenderTargets}

PassLists == UNION {[1..n -> PassKinds] : n \in 1..MaxPasses}

(* One iteration of the pass loop for pass p with the flag at copy: the   *)
(* flag after it and what it records on the command list (whether the     *)
(* back buffer was copied first, the render targets of the render pass).  *)
RenderPassClearingFlag(p, copy) ==
    IF p.cs
    THEN [flag |-> FALSE, copied |-> copy, targets |-> <<>>]
    ELSE IF p.num_render_targets = 0
    THEN [flag |-> FALSE, copied |-> copy, targets |-> <<BackBufferView>>]
    ELSE [flag |-> FALSE, copied |-> copy,
          targets |-> [i \in 1..p.num_render_targets |-> <<"rtv", i>>]]

(* the pass loop with a compute pass that leaves the flag as it was *)
RenderPassComputeKeepsFlag(p, copy) ==
    IF p.cs
    THEN [flag |-> copy, copied |-> copy, targets |-> <<>>]
    ELSE IF p.num_render_targets = 0
    THEN [flag |-> TRUE, copied |-> copy, targets |-> <<BackBufferView>>]
    ELSE [flag |-> FALSE, copied |-> copy,
          targets |-> [i \in 1..p.num_render_targets |-> <<"rtv", i>>]]

RenderPass(p, copy) ==
    IF p.cs
    THEN [flag |-> FALSE, copied |-> copy, targets |-> <<>>]
    ELSE IF p.num_render_targets = 0
    THEN [flag |-> TRUE, copied |-> copy, targets |-> <<BackBufferView>>]
    ELSE [flag |-> FALSE, copied |-> copy,
          targets |-> [i \in 1..p.num_render_targets |-> <<"rtv", i>>]]

(* render_technique is not running *)
NotRendering == [running |-> FALSE, passes |-> <<>>, pass_index |-> 0,
                 needs_implicit_backbuffer_copy |-> FALSE, cmds |-> <<>>]

(* ------------------------------- Init ---------------------------------- *)
(* the values of the side variables while their code is not running *)
NoTransition == [in_transition |-> FALSE, switched |-> FALSE]
NoSplit == [files |-> 0]
NoThreads == [running |-> FALSE]

(* the runtime after construction: nothing loaded *)
InitRegistry ==
    /\ effects = <<>>
    /\ textures = <<>>
    /\ techniques = <<>>
    /\ queue = <<>>
    /\ remaining = SizeMax
    /\ pending = {}
    /\ reloading = 0
    /\ started = FALSE
    /\ bindings = [s \in Semantics |-> NullView]
    /\ desc = EmptyDesc
    /\ dev_log = <<>>
    /\ last = NoObs
    /\ budget = MaxCalls
    /\ in_flight = FALSE

InitCacheOff == no_effect_cache = FALSE /\ cache_files = {} /\ loaded = NotLoaded
InitUniformOff ==
    /\ variable = [type |-> UniformType(1, 1, FALSE, FALSE, 0), offset |-> 0, size |-> 4]
    /\ uniform_data_storage = <<>>
    /\ ucalls = NoCalls
InitRenderOff == render = NotRendering
InitOthersOff == transition = NoTransition /\ split = NoSplit /\ threads = NoThreads

Init == InitRegistry /\ InitCacheOff /\ InitUniformOff /\ InitRenderOff /\ InitOthersOff
(* ------------------------------ actions -------------------------------- *)
(* reload_effects(): unload_effects (which waits for the device and joins *)
(* the workers) followed by load_effects, which resizes _effects and      *)
(* starts the workers.                                                    *)
DoReloadEffects ==
    LET u == UnloadEffects(effects, textures, techniques, desc) IN
    /\ effects' = [i \in 1..NumEffects |-> EmptyEffect]
    /\ textures' = u.texs
    /\ techniques' = u.techs
    /\ desc' = u.desc
    /\ remaining' = NumEffects
    /\ pending' = Effects
    /\ last' = [NoObs EXCEPT !.op = "unload_effects", !.destroyed = u.destroyed]
    /\ dev_log' = <<Call("wait_idle"), Call("destroy")>>
    /\ in_flight' = FALSE

(* the first update_and_render_effects call after on_init                 *)
(* (_framecount == 0): reload_effects, then the return of the loading     *)
(* branch                                                                 *)
FirstFrame ==
    /\ ~started
    /\ started' = TRUE
    /\ DoReloadEffects
    /\ UNCHANGED <<queue, reloading, bindings, budget>>
    /\ UNCHANGED <<cache_vars, uniform_vars, render_vars, other_vars>>

ReloadEffects ==
    /\ started /\ reloading = 0 /\ pending = {}
    /\ budget > 0
    /\ budget' = budget - 1
    /\ DoReloadEffects
    /\ UNCHANGED <<queue, reloading, started, bindings>>
    /\ UNCHANGED <<cache_vars, uniform_vars, render_vars, other_vars>>

(* on_reset() (and the on_init that follows it, which sets _framecount to *)
(* 0): _is_initialized goes false so that the workers stop after the file *)
(* they are at, unload_effects, a second wait_idle and the destruction of *)
(* the runtime's own back buffer objects.  The counter stays as it is.    *)
OnReset ==
    /\ started /\ reloading = 0
    /\ budget > 0
    /\ budget' = budget - 1
    /\ LET u == UnloadEffects(effects, textures, techniques, desc) IN
         /\ effects' = u.effs
         /\ textures' = u.texs
         /\ techniques' = u.techs
         /\ desc' = u.desc
         /\ last' = [NoObs EXCEPT !.op = "on_reset", !.destroyed = u.destroyed]
    /\ pending' = {}
    /\ started' = FALSE
    /\ dev_log' = <<Call("wait_idle"), Call("destroy"), Call("wait_idle"), Call("destroy")>>
    /\ in_flight' = FALSE
    /\ UNCHANGED <<queue, remaining, reloading, bindings>>
    /\ UNCHANGED <<cache_vars, uniform_vars, render_vars, other_vars>>

(* a worker thread's load_effect call for file e, which holds one of the  *)
(* variants V.  (save_effect_cache's result does not reach the state.)    *)
WorkerLoadEffect(e, V) ==
    /\ e \in pending
    /\ \E v \in V, cache_hit \in BOOLEAN :
         LET r == LoadEffect(e, v, FALSE, cache_hit, TRUE,
                             effects, textures, techniques, queue, remaining) IN
         /\ effects' = r.effects
         /\ textures' = r.textures
         /\ techniques' = r.techniques
         /\ queue' = r.queue
         /\ remaining' = r.remaining
    /\ pending' = pending \ {e}
    /\ last' = [NoObs EXCEPT !.op = "load_effect", !.effect = e]
    /\ dev_log' = <<>>
    /\ UNCHANGED <<reloading, started, bindings, desc, budget, in_flight>>
    /\ UNCHANGED <<cache_vars, uniform_vars, render_vars, other_vars>>

(* the techniques whose timeout can run out in a frame *)
Expirable(techs) == {i \in DOMAIN techs : Eligible(techs[i]) /\ techs[i].time_left}

(* what a call does after its loading branch *)
FramePart(branch, techs, effs, expire) ==
    IF FrameRenders(branch) THEN RenderPart(techs, effs, expire)
    ELSE [techs |-> techs, effs |-> effs, rendered |-> {}, uniforms |-> {}, cmds |-> <<>>]

(* update_and_render_effects(), after the first frame.  pl is the         *)
(* technique list of the current preset, tex_fail and fail what the       *)
(* device refuses to create in this frame, expire the techniques whose    *)
(* timeout runs out in it.                                                *)
FrameFinishLoading(pl) ==
    /\ started /\ reloading = 0
    /\ FrameBranch(remaining, queue) = "finish"
    /\ \E r \in {ApplyPreset(pl, 1, effects, techniques, queue)} :
       \E expire \in SUBSET Expirable(r.techs) :
       \E f \in {FramePart("finish", r.techs, r.effs, expire)} :
         /\ effects' = f.effs
         /\ techniques' = f.techs
         /\ queue' = r.q
         /\ last' = [NoObs EXCEPT !.frame = "finish", !.rendered = f.rendered,
                                  !.uniforms = f.uniforms]
         /\ dev_log' = f.cmds
         /\ in_flight' = (in_flight \/ f.cmds # <<>>)
    /\ remaining' = SizeMax
    /\ UNCHANGED <<textures, pending, reloading, started, bindings, desc, budget>>
    /\ UNCHANGED <<cache_vars, uniform_vars, render_vars, other_vars>>

FrameCompile(tex_fail, fail) ==
    /\ started /\ reloading = 0
    /\ FrameBranch(remaining, queue) = "compile"
    /\ \E r \in {ProcessQueue(tex_fail, fail, effects, textures, techniques, queue,
                                bindings, desc)} :
       \E expire \in SUBSET Expirable(r.techs) :
       \E f \in {FramePart("compile", r.techs, r.effs, expire)} :
         /\ effects' = f.effs
         /\ textures' = r.texs
         /\ techniques' = f.techs
         /\ queue' = r.q
         /\ desc' = r.desc
         /\ last' = [NoObs EXCEPT !.op = "compile", !.effect = r.effect,
                                  !.init_called = r.init_called, !.ok = r.ok,
                                  !.destroyed = r.destroyed, !.missing = r.missing,
                                  !.frame = "compile", !.rendered = f.rendered,
                                  !.uniforms = f.uniforms]
         /\ dev_log' = (IF r.destroyed # {} THEN <<Call("destroy")>> ELSE <<>>) \o f.cmds
         /\ in_flight' = (in_flight \/ f.cmds # <<>>)
    /\ UNCHANGED <<remaining, pending, reloading, started, bindings, budget>>
    /\ UNCHANGED <<cache_vars, uniform_vars, render_vars, other_vars>>

(* a frame with nothing to finish or compile: it renders *)
FrameIdle ==
    /\ started /\ reloading = 0
    /\ FrameBranch(remaining, queue) = "idle"
    /\ \E expire \in SUBSET Expirable(techniques) :
       \E f \in {FramePart("idle", techniques, effects, expire)} :
         /\ effects' = f.effs
         /\ techniques' = f.techs
         /\ last' = [NoObs EXCEPT !.frame = "idle", !.rendered = f.rendered,
                                  !.uniforms = f.uniforms]
         /\ dev_log' = f.cmds
         /\ in_flight' = (in_flight \/ f.cmds # <<>>)
    /\ UNCHANGED <<textures, queue, remaining, pending, reloading, started, bindings,
                   desc, budget>>
    /\ UNCHANGED <<cache_vars, uniform_vars, render_vars, other_vars>>

(* a frame while effects are still loading *)
FrameNoChange ==
    /\ started /\ reloading = 0
    /\ FrameBranch(remaining, queue) = "loading"
    /\ \E expire \in SUBSET Expirable(techniques) :
       \E f \in {FramePart("loading", techniques, effects, expire)} :
         /\ effects' = f.effs
         /\ techniques' = f.techs
         /\ last' = [NoObs EXCEPT !.frame = "loading", !.rendered = f.rendered,
                                  !.uniforms = f.uniforms]
         /\ dev_log' = f.cmds
         /\ in_flight' = (in_flight \/ f.cmds # <<>>)
    /\ UNCHANGED <<textures, queue, remaining, pending, reloading, started, bindings,
                   desc, budget>>
    /\ UNCHANGED <<cache_vars, uniform_vars, render_vars, other_vars>>

UpdateAndRenderEffects ==
    \/ FirstFrame
    \/ \E pl \in SUBSET Effects : FrameFinishLoading(pl)
    \/ /\ started /\ queue # <<>>
       /\ \E tf \in 0..Len(textures) :
            \E fail \in FailPoints(Module(effects[queue[Len(queue)]].source_hash)) :
               FrameCompile(tf, fail)
    \/ FrameIdle
    \/ FrameNoChange

(* enable_technique / disable_technique called for the i-th technique of  *)
(* the list (overlay, toggle key, API)                                    *)
CallEnableTechnique(i) ==
    /\ started /\ reloading = 0 /\ remaining = SizeMax
    /\ i \in DOMAIN techniques
    /\ budget > 0
    /\ budget' = budget - 1
    /\ LET r == EnableTechnique(techniques[i], effects, queue) IN
         /\ techniques' = [techniques EXCEPT ![i] = r.t]
         /\ effects' = r.effs
         /\ queue' = r.q
    /\ last' = [NoObs EXCEPT !.op = "enable_technique",
                             !.effect = techniques[i].effect_index]
    /\ dev_log' = <<>>
    /\ UNCHANGED <<textures, remaining, pending, reloading, started, bindings, desc,
                   in_flight>>
    /\ UNCHANGED <<cache_vars, uniform_vars, render_vars, other_vars>>

CallDisableTechnique(i) ==
    /\ started /\ reloading = 0 /\ remaining = SizeMax
    /\ i \in DOMAIN techniques
    /\ budget > 0
    /\ budget' = budget - 1
    /\ LET r == DisableTechnique(techniques[i], effects) IN
         /\ techniques' = [techniques EXCEPT ![i] = r.t]
         /\ effects' = r.effs
    /\ last' = [NoObs EXCEPT !.op = "disable_technique",
                             !.effect = techniques[i].effect_index,
                             !.ok = techniques[i].enabled]
    /\ dev_log' = <<>>
    /\ UNCHANGED <<textures, queue, remaining, pending, reloading, started, bindings,
                   desc, in_flight>>
    /\ UNCHANGED <<cache_vars, uniform_vars, render_vars, other_vars>>

(* reload_effect(e, force): unload_effect(e), then load_effect *)
ReloadEffectUnload(e) ==
    /\ started /\ reloading = 0 /\ remaining = SizeMax
    /\ e \in DOMAIN effects
    /\ budget > 0
    /\ budget' = budget - 1
    /\ LET u == UnloadEffect(e, effects, textures, techniques, desc) IN
         /\ effects' = u.effs
         /\ textures' = u.texs
         /\ techniques' = u.techs
         /\ desc' = u.desc
         /\ last' = [NoObs EXCEPT !.op = "unload_effect", !.effect = e,
                                  !.destroyed = u.destroyed]
    /\ reloading' = e
    /\ dev_log' = <<Call("wait_idle"), Call("destroy")>>
    /\ in_flight' = FALSE
    /\ UNCHANGED <<queue, remaining, pending, started, bindings>>
    /\ UNCHANGED <<cache_vars, uniform_vars, render_vars, other_vars>>

ReloadEffectLoad(V) ==
    /\ reloading # 0
    /\ \E v \in V, force \in BOOLEAN, cache_hit \in BOOLEAN :
         LET r == LoadEffect(reloading, v, force, cache_hit, TRUE,
                             effects, textures, techniques, queue, remaining) IN
         /\ effects' = r.effects
         /\ textures' = r.textures
         /\ techniques' = r.techniques
         /\ queue' = r.queue
         /\ remaining' = r.remaining
    /\ reloading' = 0
    /\ last' = [NoObs EXCEPT !.op = "load_effect", !.effect = reloading]
    /\ dev_log' = <<>>
    /\ UNCHANGED <<pending, started, bindings, desc, budget, in_flight>>
    /\ UNCHANGED <<cache_vars, uniform_vars, render_vars, other_vars>>

(* the descriptor updates for the first effect of the list alone *)
SemanticUpdatesFirstEffect(semantic, effs) ==
    IF effs = <<>> THEN <<>>
    ELSE LET hit == SelectSeq(effs[1].semantic_to_binding, LAMBDA b : b.semantic = semantic)
         IN  [j \in DOMAIN hit |-> DescKey(hit[j].set[1], hit[j].set[2], hit[j].set[3], hit[j].index)]

(* The descriptor updates update_texture_bindings collects: one for every *)
(* entry of every effect's texture_semantic_to_binding with that semantic, *)
(* in list order (set and binding of the entry, as a descriptor key).      *)
RECURSIVE SemanticUpdates(_, _)
SemanticUpdates(semantic, effs) ==
    IF effs = <<>> THEN <<>>
    ELSE LET hit == SelectSeq(Head(effs).semantic_to_binding, LAMBDA b : b.semantic = semantic)
         IN  [j \in DOMAIN hit |-> DescKey(hit[j].set[1], hit[j].set[2], hit[j].set[3], hit[j].index)]
                \o SemanticUpdates(semantic, Tail(effs))

(* update_texture_bindings(semantic, srv) *)
UpdateTextureBindings(semantic, srv) ==
    LET updates == SemanticUpdates(semantic, effects) IN
    /\ reloading = 0
    /\ bindings' = [bindings EXCEPT ![semantic] = srv]
    /\ dev_log' = <<[call |-> "wait_idle", keys |-> <<>>, view |-> NullView],
                    [call |-> "update_descriptor_sets", keys |-> updates, view |-> srv]>>
    /\ desc' = [k \in DOMAIN desc |-> IF k \in Range(updates) THEN srv ELSE desc[k]]
    /\ last' = [NoObs EXCEPT !.op = "update_texture_bindings", !.arg = <<semantic, srv>>]
    /\ in_flight' = FALSE
    /\ UNCHANGED <<effects, textures, techniques, queue, remaining, pending, reloading,
                   started, budget>>
    /\ UNCHANGED <<cache_vars, uniform_vars, render_vars, other_vars>>

(* ---------------- the registry and compile-queue behaviours ------------ *)
Next ==
    \/ UpdateAndRenderEffects
    \/ ReloadEffects
    \/ \E e \in Effects : WorkerLoadEffect(e, MainVariants)
    \/ \E i \in 1..NumEffects : CallEnableTechnique(i)
    \/ \E i \in 1..NumEffects : CallDisableTechnique(i)
    \/ \E e \in Effects : ReloadEffectUnload(e)
    \/ ReloadEffectLoad(MainVariants)
    \/ OnReset

Spec == Init /\ [][Next]_vars

(* ------------------------- texture registry ---------------------------- *)
(* effect e is loaded: its last load_effect ran the merge step and it has *)
(* not been unloaded since                                                *)
Loaded(e) == e \in DOMAIN effects /\ e # reloading /\ effects[e].merged

(* loaded effect e declares a texture with unique name n *)
Declares(e, n) == Loaded(e) /\ n \in SamplerNames(Module(effects[e].source_hash))

(* C1: a texture name has exactly one entry in the texture list, and the  *)
(* shared list of that entry contains every loaded effect that declares   *)
(* the name; unload_effect(A) keeps every entry that another effect       *)
(* shares, with its resource as it was and with A alone removed from its  *)
(* shared list (so {B} is left when A and B shared it).                   *)
C1_SharedTextureSurvivesUnload ==
    /\ [](/\ \A k1, k2 \in DOMAIN textures :
                textures[k1].name = textures[k2].name => k1 = k2
          /\ \A e \in DOMAIN effects :
                \A n \in SamplerNames(Module(effects[e].source_hash)) :
                   Declares(e, n) =>
                      \E k \in DOMAIN textures :
                         textures[k].name = n /\ Contains(textures[k].shared, e))
    /\ [][\A e \in Effects :
            ReloadEffectUnload(e) =>
               \A k \in DOMAIN textures :
                  (\E f \in Range(textures[k].shared) : f # e) =>
                     \E k2 \in DOMAIN textures' :
                        /\ textures'[k2].name = textures[k].name
                        /\ textures'[k2].resource = textures[k].resource
                        /\ textures'[k2].shared = RemoveAll(textures[k].shared, e)]_vars

(* A and B both declared T and T was allocated; A has just been unloaded: *)
(* T is still in the list, allocated, shared by B alone                   *)
C1_Witness ==
    /\ reloading # 0 /\ last.op = "unload_effect"
    /\ effects[reloading].merged
    /\ \E k \in DOMAIN textures : \E b \in DOMAIN effects :
          /\ textures[k].name \in SamplerNames(Module(effects[reloading].source_hash))
          /\ Declares(b, textures[k].name)
          /\ textures[k].resource
          /\ textures[k].shared = <<b>>

(* C2: outside a full unload_effects (called directly or by on_reset), the *)
(* resource and views of a texture are destroyed only at a moment when    *)
(* its shared list is empty.                                              *)
C2_DestroyedOnlyWhenUnshared ==
    last.op \notin {"unload_effects", "on_reset"} =>
        \A d \in last.destroyed : d.shared = <<>>

(* ------------------- failed compile-queue initialization --------------- *)
(* the step is a compile-queue attempt for effect e, compiled until then, *)
(* that fails at texture, layout or pipeline creation                     *)
FailedInit(e) ==
    /\ last'.op = "compile" /\ last'.effect = e /\ ~last'.ok
    /\ effects[e].compiled

(* C4: when the compile-queue initialization of E fails, E.compiled       *)
(* becomes false and every technique of E is disabled, and for every      *)
(* other effect F nothing changes: F's effect record, F's techniques, and *)
(* the resource of every texture whose shared list contains F.  The       *)
(* texture part is stated in the form that follows from it: no allocated  *)
(* resource of such a texture is destroyed (an attempt that allocates a   *)
(* missing shared texture is not counted as a difference).                *)
C4_FailedInitLeavesOthersAlone ==
    [][\A e \in DOMAIN effects :
          FailedInit(e) =>
             /\ ~effects'[e].compiled
             /\ \A i \in DOMAIN techniques' :
                   techniques'[i].effect_index = e => ~techniques'[i].enabled
             /\ \A f \in DOMAIN effects : f # e => effects'[f] = effects[f]
             /\ Len(techniques') = Len(techniques)
             /\ \A i \in DOMAIN techniques :
                   techniques[i].effect_index # e => techniques'[i] = techniques[i]
             /\ \A k \in DOMAIN textures :
                   (textures[k].resource /\ \E f \in Range(textures[k].shared) : f # e)
                      => textures'[k].resource]_vars

(* ----------------------- objects seen by rendering ---------------------- *)
(* The states in which a frame reaches its technique rendering: loading   *)
(* is over and the frame's compile-queue step, if any, has been done.     *)
RenderObservable ==
    /\ started /\ reloading = 0 /\ remaining = SizeMax
    /\ (queue = <<>> \/ last.op = "compile")

TechniquesOf(e) == {i \in DOMAIN techniques : techniques[i].effect_index = e}

(* effect e has all its pipeline / descriptor objects *)
HasAllObjects(e) ==
    /\ effects[e].layout /\ effects[e].sets /\ effects[e].cb
    /\ \A i \in TechniquesOf(e) : Complete(techniques[i], effects)

(* effect e has at least one of them *)
HasSomeObject(e) ==
    \/ effects[e].layout \/ effects[e].sets \/ effects[e].cb
    \/ \E i \in TechniquesOf(e) : \E p \in DOMAIN techniques[i].passes_data :
          techniques[i].passes_data[p]

(* compiled, and preprocessed or loaded from the cache by its load_effect *)
CompiledAndSourced(e) == effects[e].compiled /\ effects[e].merged

(* C3 as claimed: at the start of technique rendering an effect has its   *)
(* pipeline / descriptor objects if and only if it is compiled and was    *)
(* preprocessed or loaded from cache, and no effect has only part of them *)
C3_ObjectsIffCompiled ==
    RenderObservable =>
       \A e \in DOMAIN effects :
          /\ HasAllObjects(e) <=> CompiledAndSourced(e)
          /\ HasSomeObject(e) => HasAllObjects(e)

(* C3 as the code has it: at the start of technique rendering every       *)
(* technique the render loop renders (enabled, passes_data not empty)     *)
(* belongs to an effect that is compiled, was preprocessed or loaded from *)
(* cache and has all its objects; an effect that is not compiled has no   *)
(* such technique, and a compiled effect has all of its objects or none.  *)
C3_RenderedEffectsComplete ==
    RenderObservable =>
       /\ \A i \in DOMAIN techniques :
             Eligible(techniques[i]) =>
                /\ CompiledAndSourced(techniques[i].effect_index)
                /\ HasAllObjects(techniques[i].effect_index)
       /\ \A e \in DOMAIN effects :
             (effects[e].compiled /\ HasSomeObject(e)) => HasAllObjects(e)

(* one effect is being rendered while another one, whose initialization   *)
(* failed half-way, still holds the objects created before the failure    *)
C3_Witness ==
    /\ RenderObservable
    /\ \E i \in DOMAIN techniques : Eligible(techniques[i])
    /\ \E e \in DOMAIN effects :
          ~effects[e].compiled /\ HasSomeObject(e) /\ ~HasAllObjects(e)

(* ---------------------------- parse failure ----------------------------- *)
(* the source effect e was last loaded from does not parse *)
ParseFailed(e) ==
    effects[e].source_hash # 0 /\ ~Module(effects[e].source_hash).parse_ok

(* the technique records enable_technique could be handed for effect e *)
TechniqueRecords(e) ==
    {[effect_index |-> e, name |-> 1, passes |-> 1, annot_enabled |-> a,
      enabled |-> FALSE, passes_data |-> <<>>] : a \in BOOLEAN}

(* C5: an effect whose parse failed has compiled = false and a non-empty  *)
(* error text, and as long as it is not reloaded with a source that       *)
(* parses: none of its techniques is enabled (enable_technique gives back *)
(* the technique, the compile queue and the effects unchanged), its       *)
(* rendering count is 0, init_effect is not called for it even when it is *)
(* popped from the compile queue, and it has no pipeline or other object. *)
C5_ParseFailureKeepsEffectOff ==
    \A e \in DOMAIN effects :
       ParseFailed(e) =>
          /\ ~effects[e].compiled
          /\ effects[e].errors # {}
          /\ \A i \in TechniquesOf(e) : ~techniques[i].enabled
          /\ effects[e].rendering = 0
          /\ \A t \in TechniqueRecords(e) :
                EnableTechnique(t, effects, queue) = [t |-> t, effs |-> effects, q |-> queue]
          /\ (last.op = "compile" /\ last.effect = e) => ~last.init_called
          /\ ~HasSomeObject(e) /\ ~effects[e].query_heap

(* an effect that was queued for compilation has been reloaded from a     *)
(* source with a syntax error and was then popped from the compile queue  *)
C5_Witness ==
    \E e \in DOMAIN effects :
       /\ ParseFailed(e) /\ "parse" \in effects[e].errors
       /\ last.op = "compile" /\ last.effect = e /\ ~last.init_called

(* -------------------------- disable_technique --------------------------- *)
(* C6: disable_technique on a technique that is already disabled leaves   *)
(* the rendering count of its effect (and all else of the effects)        *)
(* unchanged; a call on an enabled technique takes one off the count and  *)
(* leaves the technique disabled, so that a second call right after it    *)
(* changes nothing: consecutive calls decrement at most once.             *)
C6_DisableTechniqueIdempotent ==
    /\ [](\A i \in DOMAIN techniques :
             LET r1 == DisableTechnique(techniques[i], effects)
                 r2 == DisableTechnique(r1.t, r1.effs)
             IN  r2 = r1 /\ ~r1.t.enabled)
    /\ [][\A i \in DOMAIN techniques :
            CallDisableTechnique(i) =>
               LET e == techniques[i].effect_index IN
               /\ ~techniques'[i].enabled
               /\ ~techniques[i].enabled => effects' = effects
               /\ techniques[i].enabled =>
                     effects'[e].rendering = effects[e].rendering - 1]_vars

(* disable_technique has just been called on a technique that had been   *)
(* enabled and was disabled again before the call (here by the cleanup    *)
(* after its effect failed to initialize); the count is still 0           *)
C6_Witness ==
    /\ last.op = "disable_technique" /\ ~last.ok
    /\ effects[last.effect].rendering = 0
    /\ \E i \in TechniquesOf(last.effect) :
          ~techniques[i].enabled /\ techniques[i].passes_data # <<>>

(* ===================== uniform storage behaviours ======================= *)
(* One uniform variable of some type at some offset of its effect's       *)
(* storage, and any sequence of raw set_uniform_value /                   *)
(* get_uniform_value calls on it.                                         *)
InitUniform ==
    /\ InitRegistry /\ InitCacheOff /\ InitRenderOff /\ InitOthersOff
    /\ \E t \in UniformTypes, off \in {16} :
          /\ ValidType(t)
          /\ \E sz \in {PackedSize(t), PaddedSize(t)} :
                variable = [type |-> t, offset |-> off, size |-> sz]
    /\ uniform_data_storage = [w \in 0..(StorageWords(variable) - 1) |-> 0]
    /\ ucalls = NoCalls

(* the sizes and base indices a caller passes *)
CallSizes == {12, variable.size}
CallBases == 0..ArrayLength(variable)

CallSetUniformValue(size, base_index, seed) ==
    /\ ucalls.calls < MaxUniformCalls
    /\ uniform_data_storage' =
          SetUniformValue(variable, InputData(seed), size, base_index, uniform_data_storage)
    /\ ucalls' = [ucalls EXCEPT !.op = "set", !.calls = @ + 1, !.size = size, !.base_index = base_index,
                                !.data = InputData(seed),
                                !.set_size = size, !.set_base_index = base_index]
    /\ UNCHANGED <<variable, registry_vars, cache_vars, render_vars, other_vars>>

CallGetUniformValue(size, base_index) ==
    /\ ucalls.calls < MaxUniformCalls
    /\ ucalls' = [ucalls EXCEPT !.op = "get", !.calls = @ + 1, !.size = size, !.base_index = base_index,
                                !.out = GetUniformValue(variable, BlankData, size, base_index,
                                                        uniform_data_storage)]
    /\ UNCHANGED <<variable, uniform_data_storage, registry_vars, cache_vars, render_vars, other_vars>>

NextUniform ==
    \/ \E size \in CallSizes, base_index \in CallBases, seed \in {1, 2} :
          CallSetUniformValue(size, base_index, seed)
    \/ \E size \in CallSizes, base_index \in CallBases :
          CallGetUniformValue(size, base_index)

SpecUniform == InitUniform /\ [][NextUniform]_vars

(* the number of components a call with this size and base index covers *)
ComponentsCovered(size, base_index) ==
    IF base_index >= ArrayLength(variable) THEN 0
    ELSE Min({Min({size, variable.size}) \div 4,
              (ArrayLength(variable) - base_index) * Components(variable.type)})

(* the components (element a, row, col) a call covers, each with its      *)
(* place in the data buffer                                               *)
ComponentsOf(size, base_index) ==
    {c \in [a : 0..(ArrayLength(variable) - 1), row : 0..(variable.type.rows - 1),
            col : 0..(variable.type.cols - 1), d : 0..(DataWords - 1)] :
        /\ c.a >= base_index
        /\ c.d = (c.a - base_index) * Components(variable.type)
                    + c.row * variable.type.cols + c.col
        /\ c.d < ComponentsCovered(size, base_index)}

(* C7: for a matrix uniform with R rows and C columns, both calls place   *)
(* component (a, row, col) at variable.offset + 16*(a*R + row) + 4*col;   *)
(* set_uniform_value leaves every component it was given there, and a     *)
(* get_uniform_value with the size and base index of the last             *)
(* set_uniform_value gives back exactly the components that were written  *)
(* (and touches nothing else of the buffer).                              *)
C7_MatrixRoundTrip ==
    variable.type.is_matrix =>
       /\ \A a \in 0..(ArrayLength(variable) - 1), row \in 0..(variable.type.rows - 1),
             col \in 0..(variable.type.cols - 1) :
             LET claimed == variable.offset + 16 * (a * variable.type.rows + row) + 4 * col
             IN  /\ GetStorageOffset(variable, a, row, col) = claimed
                 /\ SetStorageOffset(variable, a, row, col) = claimed
       /\ ucalls.op = "set" =>
             \A c \in ComponentsOf(ucalls.size, ucalls.base_index) :
                uniform_data_storage[(variable.offset
                      + 16 * (c.a * variable.type.rows + c.row) + 4 * c.col) \div 4]
                   = ucalls.data[c.d]
       /\ (/\ ucalls.op = "get"
           /\ ucalls.size = ucalls.set_size
           /\ ucalls.base_index = ucalls.set_base_index) =>
             \A d \in 0..(DataWords - 1) :
                ucalls.out[d] = IF d < ComponentsCovered(ucalls.size, ucalls.base_index)
                                THEN ucalls.data[d] ELSE BlankData[d]

(* the second element of an array of 3x3 matrices has been written and    *)
(* read back in full                                                      *)
C7_Witness ==
    /\ variable.type.is_matrix /\ variable.type.rows = 3 /\ variable.type.cols = 3
    /\ variable.type.array_length = 2 /\ variable.offset # 0
    /\ ucalls.op = "get" /\ ucalls.base_index = 1
    /\ ucalls.size = ucalls.set_size /\ ucalls.base_index = ucalls.set_base_index
    /\ ComponentsCovered(ucalls.size, ucalls.base_index) = 9
    /\ \A d \in 0..8 : ucalls.out[d] = ucalls.data[d] /\ ucalls.out[d] # 0

(* ====================== render_technique behaviours ===================== *)
(* render_technique(technique) for a technique with any list of passes,   *)
(* one step per iteration of its pass loop.                               *)
InitRender ==
    InitRegistry /\ InitCacheOff /\ InitUniformOff /\ InitRenderOff /\ InitOthersOff

(* entry: the flag starts out true *)
RenderTechniqueBegin(passes) ==
    /\ ~render.running
    /\ render' = [running |-> TRUE, passes |-> passes, pass_index |-> 0,
                  needs_implicit_backbuffer_copy |-> TRUE, cmds |-> <<>>]
    /\ UNCHANGED <<registry_vars, cache_vars, uniform_vars, other_vars>>

(* one iteration of the pass loop *)
RenderTechniquePass ==
    /\ render.running /\ render.pass_index < Len(render.passes)
    /\ LET r == RenderPass(render.passes[render.pass_index + 1],
                           render.needs_implicit_backbuffer_copy) IN
       render' = [render EXCEPT !.pass_index = @ + 1,
                                !.needs_implicit_backbuffer_copy = r.flag,
                                !.cmds = Append(@, [copied |-> r.copied,
                                                    targets |-> r.targets,
                                                    flag_after |-> r.flag])]
    /\ UNCHANGED <<registry_vars, cache_vars, uniform_vars, other_vars>>

(* the loop is over; the commands recorded stay to be looked at *)
RenderTechniqueEnd ==
    /\ render.running /\ render.pass_index = Len(render.passes)
    /\ render' = [render EXCEPT !.running = FALSE]
    /\ UNCHANGED <<registry_vars, cache_vars, uniform_vars, other_vars>>

NextRender ==
    \/ \E passes \in PassLists : RenderTechniqueBegin(passes)
    \/ RenderTechniquePass
    \/ RenderTechniqueEnd

SpecRender == InitRender /\ [][NextRender]_vars

(* pass i of the technique is a graphics pass without render targets of   *)
(* its own                                                                *)
BackBufferPass(i) ==
    ~render.passes[i].cs /\ render.passes[i].num_render_targets = 0

(* C9 as claimed: after render_technique ran the one pass of a technique  *)
(* whose pass is a graphics pass without custom render target, the        *)
(* back-buffer-copy flag was true before the pass and is false after it,  *)
(* and the pass rendered to one render target, the back buffer.           *)
C9_FlagFalseAfterBackBufferPass ==
    (Len(render.passes) = 1 /\ Len(render.cmds) = 1 /\ BackBufferPass(1)) =>
       /\ render.cmds[1].copied
       /\ ~render.needs_implicit_backbuffer_copy
       /\ render.cmds[1].targets = <<BackBufferView>>

(* C9 as the code has it: a graphics pass without custom render target    *)
(* renders to exactly one render target, the back buffer, and leaves the  *)
(* flag true (the back buffer changed, a following pass needs a new       *)
(* copy); for a technique with this one pass the flag is true before the  *)
(* pass and true after it.  The flag is false only after a compute pass   *)
(* or a pass with render targets of its own, and the first pass always    *)
(* starts with the copy.                                                  *)
C9_FlagTrueAfterBackBufferPass ==
    /\ \A i \in DOMAIN render.cmds :
          /\ BackBufferPass(i) =>
                /\ render.cmds[i].targets = <<BackBufferView>>
                /\ render.cmds[i].flag_after
          /\ render.cmds[i].flag_after <=> BackBufferPass(i)
          /\ render.cmds[i].copied <=> (i = 1 \/ render.cmds[i - 1].flag_after)
    /\ (Len(render.passes) = 1 /\ Len(render.cmds) = 1 /\ BackBufferPass(1)) =>
          /\ render.cmds[1].copied
          /\ render.needs_implicit_backbuffer_copy

(* render_technique has finished a technique whose only pass is a         *)
(* graphics pass without custom render target                             *)
C9_Witness ==
    /\ ~render.running
    /\ Len(render.passes) = 1 /\ Len(render.cmds) = 1 /\ BackBufferPass(1)
    /\ render.cmds[1].copied
    /\ render.cmds[1].targets = <<BackBufferView>>
    /\ render.needs_implicit_backbuffer_copy

(* ======================== effect cache behaviours ======================= *)
(* The runtime after the first frame's reload_effects (every file still   *)
(* to be loaded), with the cache option as the configuration has it and   *)
(* a cache directory that holds whatever earlier runs left in it; then    *)
(* load_effect calls by workers and by reload_effect, and                 *)
(* clear_effect_cache.                                                    *)
CacheVariants == {1, 3}
CacheEntries == {<<e, v>> : e \in Effects, v \in CacheVariants}

InitCache ==
    /\ effects = [i \in Effects |-> EmptyEffect]
    /\ textures = <<>> /\ techniques = <<>> /\ queue = <<>>
    /\ remaining = NumEffects /\ pending = Effects
    /\ reloading = 0 /\ started = TRUE
    /\ bindings = [s \in Semantics |-> NullView]
    /\ desc = EmptyDesc /\ dev_log = <<>> /\ last = NoObs
    /\ budget = MaxCalls /\ in_flight = FALSE
    /\ no_effect_cache \in BOOLEAN
    /\ cache_files \in SUBSET CacheEntries
    /\ loaded = NotLoaded
    /\ InitUniformOff /\ InitRenderOff /\ InitOthersOff

(* load_effect(file e, ..., e, force) with the cache directory of the     *)
(* state: what it does to the registry and the cache, and what was seen   *)
(* of it                                                                  *)
DoLoadEffect(e, v, force, read_ok, write_ok, effs, texs, techs) ==
    LET hit == LoadEffectCache(e, v, no_effect_cache, cache_files, read_ok)
        sv  == SaveEffectCache(e, v, no_effect_cache, cache_files, write_ok)
        r   == LoadEffect(e, v, force, hit, sv.ok, effs, texs, techs, queue, remaining)
    IN  /\ effects' = r.effects
        /\ textures' = r.textures
        /\ techniques' = r.techniques
        /\ queue' = r.queue
        /\ remaining' = r.remaining
        /\ cache_files' = IF r.pp_invoked /\ Module(v).pp_ok THEN sv.files ELSE cache_files
        /\ loaded' = [effect |-> e, hash |-> v, force |-> force, read_ok |-> read_ok,
                      hash_unchanged |-> (effs[e].source_hash = v),
                      entry_existed |-> (<<e, v>> \in cache_files),
                      was_preprocessed |-> (effs[e].source_hash = v /\ effs[e].preprocessed),
                      pp_invoked |-> r.pp_invoked, cache_read |-> r.cache_read,
                      parsed |-> r.parsed]

CacheWorkerLoadEffect(e) ==
    /\ e \in pending
    /\ \E v \in CacheVariants, read_ok \in BOOLEAN, write_ok \in BOOLEAN :
          DoLoadEffect(e, v, FALSE, read_ok, write_ok, effects, textures, techniques)
    /\ pending' = pending \ {e}
    /\ UNCHANGED <<reloading, started, bindings, desc, dev_log, last, budget, in_flight,
                   no_effect_cache, uniform_vars, render_vars, other_vars>>

(* reload_effect(e, force): unload_effect(e) and load_effect in one go *)
CacheReloadEffect(e) ==
    /\ remaining = SizeMax
    /\ budget > 0
    /\ budget' = budget - 1
    /\ LET u == UnloadEffect(e, effects, textures, techniques, desc) IN
       /\ desc' = u.desc
       /\ \E v \in CacheVariants, force \in BOOLEAN, read_ok \in BOOLEAN, write_ok \in BOOLEAN :
             DoLoadEffect(e, v, force, read_ok, write_ok, u.effs, u.texs, u.techs)
    /\ dev_log' = <<Call("wait_idle"), Call("destroy")>>
    /\ in_flight' = FALSE
    /\ UNCHANGED <<pending, reloading, started, bindings, last,
                   no_effect_cache, uniform_vars, render_vars, other_vars>>

(* clear_effect_cache(): every cache file of the directory is deleted *)
ClearEffectCache ==
    /\ remaining = SizeMax
    /\ cache_files # {}
    /\ cache_files' = {}
    /\ UNCHANGED <<registry_vars, no_effect_cache, loaded, uniform_vars, render_vars, other_vars>>

NextCache ==
    \/ \E e \in Effects : CacheWorkerLoadEffect(e)
    \/ \E pl \in SUBSET Effects : FrameFinishLoading(pl)
    \/ \E e \in Effects : CacheReloadEffect(e)
    \/ ClearEffectCache

SpecCache == InitCache /\ [][NextCache]_vars

(* the last load_effect call was one for an effect whose hash had not     *)
(* changed, with a cache entry on disk and without forced preprocessing   *)
UnchangedAndCached ==
    /\ loaded.effect # 0
    /\ loaded.hash_unchanged /\ loaded.entry_existed /\ ~loaded.force

(* C8 as claimed: such a call does not invoke the preprocessor and uses   *)
(* the cached source text.                                                *)
C8_CachedSkipsPreprocessor ==
    UnchangedAndCached => (~loaded.pp_invoked /\ loaded.cache_read)

(* C8 as the code has it: such a call invokes the preprocessor exactly    *)
(* when the effect is not marked preprocessed and the cache is switched   *)
(* off (_no_effect_cache) or the entry cannot be read; it reads the       *)
(* cached text exactly when the effect is not marked preprocessed, the    *)
(* cache is on and the entry is readable.  An effect that is already      *)
(* marked preprocessed gets neither, and nothing is parsed for it.        *)
C8_CacheDecision ==
    UnchangedAndCached =>
       /\ loaded.pp_invoked <=>
             (~loaded.was_preprocessed /\ (no_effect_cache \/ ~loaded.read_ok))
       /\ loaded.cache_read <=>
             (~loaded.was_preprocessed /\ ~no_effect_cache /\ loaded.read_ok)
       /\ loaded.was_preprocessed => ~loaded.parsed

(* reload_effect of an unchanged effect that had been loaded from the     *)
(* cache before: the cache is on and the entry is read again, the         *)
(* preprocessor does not run                                              *)
C8_Witness ==
    /\ UnchangedAndCached
    /\ ~no_effect_cache /\ loaded.read_ok /\ ~loaded.was_preprocessed
    /\ ~loaded.pp_invoked /\ loaded.cache_read
    /\ budget < MaxCalls

(* ===================== texture semantic behaviours ====================== *)
(* Effect files that declare a texture with a semantic, loaded, compiled  *)
(* and reloaded while update_texture_bindings is called.                  *)
NextBind ==
    \/ UpdateAndRenderEffects
    \/ \E e \in Effects : WorkerLoadEffect(e, BindVariants)
    \/ \E e \in Effects : ReloadEffectUnload(e)
    \/ ReloadEffectLoad(BindVariants)
    \/ \E semantic \in Semantics, srv \in Views \cup {NullView} :
          UpdateTextureBindings(semantic, srv)

SpecBind == Init /\ [][NextBind]_vars

(* The descriptors that init_effect wrote for a sampler of a texture with *)
(* the semantic, in the effects whose init_effect went through.           *)
BoundFor(semantic) ==
    {k \in DOMAIN desc :
        /\ k \in AssignedKeys(techniques, Effects, desc)
        /\ effects[k[1]].layout
        /\ \E i \in DOMAIN Module(effects[k[1]].source_hash).textures :
              LET d == Module(effects[k[1]].source_hash).textures[i] IN
              d.name = k[4] /\ d.semantic = semantic}

MaxDelay == 8
Delays == 1..MaxDelay
FrameTimes == {999, 1000, 1500, 2000, 2500, 16667}

RECURSIVE Gcd(_, _)
Gcd(a, b) == IF b = 0 THEN a ELSE Gcd(b, a % b)
Frac(n, d) == LET g == Gcd(IF n < 0 THEN -n ELSE n, d) IN [n |-> n \div g, d |-> d \div g]

(* target - (target - old) / ms_left_from_last_frame * ms_left *)
Interpolate(old, target, ms_left, ms_left_from_last_frame) ==
    LET diff == Frac(target.n * old.d - old.n * target.d, target.d * old.d)
        step == Frac(diff.n * ms_left, diff.d * ms_left_from_last_frame)
    IN  Frac(target.n * step.d - step.n * target.d, target.d * step.d)

(* the part of load_current_preset that sets a float uniform *)
LoadCurrentPreset(tr) ==
    LET transition_time == tr.last_present_time - tr.last_preset_switching_time
        transition_ms_left == tr.delay - transition_time \div 1000
        transition_ms_left_from_last_frame ==
            transition_ms_left + tr.last_frame_duration \div 1000
        still == tr.in_transition /\ ~(transition_ms_left <= 0)
    IN  [tr EXCEPT !.in_transition = still,
                   !.calls = @ + 1,
                   !.value = IF still
                             THEN Interpolate(tr.value, tr.target, transition_ms_left,
                                              transition_ms_left_from_last_frame)
                             ELSE tr.target]

InitTransition ==
    /\ InitRegistry /\ InitCacheOff /\ InitUniformOff /\ InitRenderOff
    /\ split = NoSplit /\ threads = NoThreads
    /\ \E delay \in Delays, frame \in FrameTimes :
          transition = [in_transition |-> FALSE, switched |-> FALSE,
                        delay |-> delay, frame |-> frame,
                        last_present_time |-> 0, last_frame_duration |-> frame,
                        last_preset_switching_time |-> 0,
                        value |-> Frac(0, 1), target |-> Frac(1, 1), calls |-> 0]

(* on_present; pressed says whether the next-preset key went down *)
OnPresent(pressed) ==
    /\ pressed = ~transition.switched
    /\ pressed \/ transition.in_transition
    /\ LET current_time == transition.last_present_time + transition.frame
           t1 == [transition EXCEPT !.last_frame_duration = current_time - transition.last_present_time,
                                    !.last_present_time = current_time]
           t2 == IF pressed
                 THEN [t1 EXCEPT !.last_preset_switching_time = current_time,
                                 !.in_transition = TRUE, !.switched = TRUE]
                 ELSE t1
       IN  transition' = IF t2.in_transition THEN LoadCurrentPreset(t2) ELSE t2
    /\ UNCHANGED <<registry_vars, cache_vars, uniform_vars, render_vars, split_vars, thread_vars>>

NextTransition == \E pressed \in BOOLEAN : OnPresent(pressed)

SpecTransition == InitTransition /\ [][NextTransition]_vars

(* C11: after each load_current_preset call of a transition the distance  *)
(* of the live value to the target, as a part of the whole distance, is   *)
(* the part of the transition time that is left, to within one frame      *)
(* time; once the transition time has elapsed the value is the target.    *)
C11_LinearTransition ==
    transition.calls > 0 =>
       LET delay_us == transition.delay * 1000
           left_us  == delay_us - (transition.last_present_time
                                     - transition.last_preset_switching_time)
           v        == transition.value
           dev      == (v.d - v.n) * delay_us - left_us * v.d
       IN  IF left_us <= 0 THEN v = transition.target
           ELSE (IF dev < 0 THEN -dev ELSE dev) <= transition.frame * v.d

(* ------------------- frames while effects are loading ------------------ *)
(* the calls recorded on the immediate command list *)
CommandListCalls == {"barrier", "render_technique"}

(* the step updates no uniform, initializes no effect, renders no          *)
(* technique and records no command-list command                          *)
NoOpFrame ==
    /\ last'.uniforms = {}
    /\ ~last'.init_called
    /\ last'.rendered = {}
    /\ \A k \in DOMAIN dev_log' : dev_log'[k].call \notin CommandListCalls

(* C12 as stated: a call of update_and_render_effects made while the       *)
(* remaining-effects counter is nonzero is a no-op.                        *)
C12_NoOpWhileCounterNonzero ==
    [][(remaining # 0 /\ UpdateAndRenderEffects) => NoOpFrame]_vars

(* C12: a call of update_and_render_effects made while the                *)
(* remaining-effects counter is neither zero nor the value it holds when  *)
(* no load is in progress (the maximum of size_t) updates no uniform,     *)
(* initializes no effect, renders no technique and records no             *)
(* command-list command.                                                  *)
C12_NoOpWhileLoading ==
    [][(remaining \notin {0, SizeMax} /\ UpdateAndRenderEffects) => NoOpFrame]_vars

(* a frame came while a worker was still loading and another effect was   *)
(* already merged                                                         *)
C12_Witness ==
    /\ last.frame = "loading"
    /\ pending # {}
    /\ techniques # <<>>
    /\ dev_log = <<>>

(* ------------------- load_effects: the worker split -------------------- *)
(* load_effects() with N effect files on a machine whose                  *)
(* hardware_concurrency() answers hc (0 when it is not known): the number *)
(* of workers, and the loop every worker runs over all file indices,      *)
(* calling load_effect for the indices that fall to it.  split.i[n] is    *)
(* the loop variable of worker n, split.calls[i] the workers that have    *)
(* called load_effect for index i, in order.                              *)
MaxFiles == 4          \* effect files found by load_effects
MaxConcurrency == 4    \* largest answer of hardware_concurrency()

Min2(a, b) == IF a < b THEN a ELSE b
Max2(a, b) == IF a > b THEN a ELSE b

NumSplits(files, hc) == Min2(files, Max2(hc, 2) - 1)

(* the test of the worker loop, rounding the quotient up *)
AssignedRoundingUp(i, n, num_splits, files) ==
    (i * num_splits + files - 1) \div files = n

(* the test  i * num_splits / effect_files.size() == n  of the worker loop *)
Assigned(i, n, num_splits, files) == (i * num_splits) \div files = n

InitSplit ==
    /\ InitRegistry /\ InitCacheOff /\ InitUniformOff /\ InitRenderOff
    /\ transition = NoTransition /\ threads = NoThreads
    /\ \E files \in 1..MaxFiles : \E hc \in 0..MaxConcurrency :
          split = [files |-> files, hc |-> hc,
                   num_splits |-> NumSplits(files, hc),
                   is_initialized |-> TRUE,
                   i |-> [n \in 0..(NumSplits(files, hc) - 1) |-> 0],
                   calls |-> [k \in 0..(files - 1) |-> <<>>]]

(* one iteration of the loop of worker n *)
SplitWorkerStep(n) ==
    /\ n \in DOMAIN split.i
    /\ split.i[n] < split.files /\ split.is_initialized
    /\ split' = [split EXCEPT
          !.i[n] = @ + 1,
          !.calls[split.i[n]] =
              IF Assigned(split.i[n], n, split.num_splits, split.files)
              THEN Append(@, n) ELSE @]
    /\ UNCHANGED <<registry_vars, cache_vars, uniform_vars, render_vars,
                   transition_vars, thread_vars>>

(* on_reset() while the workers run: they leave their loops *)
SplitOnReset ==
    /\ split.is_initialized
    /\ \E n \in DOMAIN split.i : split.i[n] < split.files
    /\ split' = [split EXCEPT !.is_initialized = FALSE]
    /\ UNCHANGED <<registry_vars, cache_vars, uniform_vars, render_vars,
                   transition_vars, thread_vars>>

NextSplit ==
    \/ \E n \in 0..(MaxFiles - 1) : SplitWorkerStep(n)
    \/ SplitOnReset

SpecSplit == InitSplit /\ [][NextSplit]_vars

(* the indices that fall to worker n *)
WorkerIndices(n) ==
    {k \in 0..(split.files - 1) : Assigned(k, n, split.num_splits, split.files)}

SplitDone == \A n \in DOMAIN split.i : split.i[n] = split.files

(* C13: the index sets of the workers are pairwise disjoint and cover     *)
(* 0..N-1; load_effect is never called twice for an index, and when all   *)
(* worker loops have run to their end every index has been loaded by      *)
(* exactly one worker, the one it falls to.                               *)
C13_WorkersPartitionIndices ==
    split.files > 0 =>
      /\ split.num_splits >= 1
      /\ \A n, m \in DOMAIN split.i :
            n # m => WorkerIndices(n) \cap WorkerIndices(m) = {}
      /\ UNION {WorkerIndices(n) : n \in DOMAIN split.i} = 0..(split.files - 1)
      /\ \A k \in DOMAIN split.calls : Len(split.calls[k]) <= 1
      /\ SplitDone =>
            \A k \in DOMAIN split.calls :
                /\ Len(split.calls[k]) = 1
                /\ k \in WorkerIndices(split.calls[k][1])

(* several workers have finished several files each *)
C13_Witness ==
    /\ split.files = MaxFiles /\ split.num_splits >= 2 /\ split.num_splits < split.files
    /\ split.is_initialized
    /\ SplitDone

(* ----------------- where GPU objects are initialized ------------------- *)
(* the names of the textures that have a resource *)
Allocated == {textures[k].name : k \in {j \in DOMAIN textures : textures[j].resource}}

(* the effects that have a pipeline, layout, descriptor or buffer object *)
WithObjects == {e \in DOMAIN effects : HasSomeObject(e)}

(* the step ran init_texture or init_effect *)
Initializes ==
    \/ last'.init_called
    \/ ~(Allocated' \subseteq Allocated)
    \/ ~(WithObjects' \subseteq WithObjects)

(* C14: init_texture and init_effect run in no step of a worker and in no *)
(* step taken while a worker is still loading or the counter says so;     *)
(* they run only in the compile-queue branch of update_and_render_effects *)
(* on the render thread, which takes one effect from the queue, so that   *)
(* at most one effect gains objects in a call.                            *)
C14_InitOnlyInRenderFrame ==
    [][Initializes =>
          /\ pending = {} /\ remaining = SizeMax
          /\ started /\ reloading = 0
          /\ last'.frame = "compile"
          /\ Len(queue') = Len(queue) - 1
          /\ WithObjects' \ WithObjects \subseteq {last'.effect}]_vars

(* an effect was initialized while a second one still waits in the queue *)
C14_Witness ==
    /\ last.frame = "compile" /\ last.init_called /\ last.ok
    /\ queue # <<>>
    /\ WithObjects = {last.effect}

(* ------------------- destruction and the idle wait --------------------- *)
(* The calls of log from position i on, made on a device that is busy     *)
(* (commands were recorded since the last wait_idle) or not: no object is *)
(* destroyed while the device is busy.                                    *)
RECURSIVE DestroysIdle(_, _, _)
DestroysIdle(log, i, busy) ==
    IF i > Len(log) THEN TRUE
    ELSE IF log[i].call = "destroy" THEN ~busy /\ DestroysIdle(log, i + 1, busy)
    ELSE DestroysIdle(log, i + 1,
                      IF log[i].call = "wait_idle" THEN FALSE
                      ELSE IF log[i].call \in CommandListCalls THEN TRUE
                      ELSE busy)

(* C16: every destruction of an object of an effect, in unload_effect,    *)
(* unload_effects, on_reset and the cleanup after a failed                *)
(* initialization, comes after a wait_idle with no command recorded       *)
(* between the wait and the destruction.                                  *)
C16_DestroyAfterWaitIdle ==
    [][DestroysIdle(dev_log', 1, in_flight)]_vars

(* --------------------- textures with a semantic ------------------------ *)
(* Behaviours in which the files declare T as a plain texture (variants 1 *)
(* and 4), T as a reference to the back buffer (variant 6) and D as a     *)
(* reference to the depth buffer (variant 4).                             *)
SemanticVariants == {1, 4, 6}

NextSemantic ==
    \/ UpdateAndRenderEffects
    \/ \E e \in Effects : WorkerLoadEffect(e, SemanticVariants)
    \/ \E e \in Effects : ReloadEffectUnload(e)
    \/ ReloadEffectLoad(SemanticVariants)
    \/ OnReset

SpecSemantic == Init /\ [][NextSemantic]_vars

(* C18: a texture with a non-empty semantic never has a resource or a     *)
(* view of its own.                                                       *)
C18_SemanticTextureOwnsNothing ==
    \A k \in DOMAIN textures : textures[k].semantic # "" => ~textures[k].resource

(* an effect that declares a texture with a semantic was initialized, in  *)
(* the same call as a plain texture was created                           *)
C18_Witness ==
    /\ last.frame = "compile" /\ last.init_called /\ last.ok
    /\ \E k \in DOMAIN textures :
          /\ textures[k].semantic # ""
          /\ Contains(textures[k].shared, last.effect)
    /\ \E k \in DOMAIN textures : textures[k].resource

(* ---------------- textures of an effect at its init_effect ------------- *)
(* C19: whenever init_effect runs for an effect, every texture without a  *)
(* semantic that the effect declares has an entry with a resource in the  *)
(* texture list (look_up_texture_by_name finds it), whatever loads,       *)
(* unloads and failed reloads came before.                                *)
C19_TexturesAllocatedAtInit ==
    last.init_called => last.missing = {}

(* ---------------------- the rendering count ---------------------------- *)
(* Behaviours in which the files hold a technique enabled by annotation   *)
(* (variant 2), a file that fails to parse (variant 3) and a technique    *)
(* with a timeout next to a plain one (variant 5).                        *)
CountVariants == {2, 3, 5}

NextCount ==
    \/ UpdateAndRenderEffects
    \/ \E e \in Effects : WorkerLoadEffect(e, CountVariants)
    \/ \E i \in 1..(2 * NumEffects) : CallEnableTechnique(i)
    \/ \E i \in 1..(2 * NumEffects) : CallDisableTechnique(i)
    \/ \E e \in Effects : ReloadEffectUnload(e)
    \/ ReloadEffectLoad(CountVariants)
    \/ OnReset

SpecCount == Init /\ [][NextCount]_vars

(* the techniques of effect e in the list that are enabled *)
EnabledTechniques(e) ==
    {i \in DOMAIN techniques : techniques[i].effect_index = e /\ techniques[i].enabled}

(* C20: the rendering count of every effect is the number of enabled      *)
(* techniques in the list that belong to it, and is never negative.       *)
C20_RenderingCountsEnabled ==
    \A e \in DOMAIN effects :
        /\ effects[e].rendering = Cardinality(EnabledTechniques(e))
        /\ effects[e].rendering >= 0

(* the timeout of a technique ran out in a frame that rendered it, while  *)
(* another technique of the same effect stays enabled                     *)
C20_Witness ==
    \E i \in DOMAIN techniques :
        /\ techniques[i].timeout /\ ~techniques[i].enabled
        /\ <<techniques[i].effect_index, techniques[i].name>> \in last.rendered
        /\ effects[techniques[i].effect_index].rendering = 1

(* ------------------ the loading threads and the mutex ------------------ *)
(* The main thread and the workers of load_effects at the grain of the    *)
(* regions between their synchronization points.  There are MaxWorkers    *)
(* effect files and as many workers (hardware_concurrency is large        *)
(* enough), so that worker n loads file n.  threads.worker[n] is where    *)
(* worker n is:                                                           *)
(*   "none"   not spawned, or joined                                      *)
(*   "start"  at the test of its loop (reads _is_initialized)             *)
(*   "load"   in load_effect before the merge: preprocesses, parses and   *)
(*            writes its effect record                                    *)
(*   "lock"   waiting for _reload_mutex                                   *)
(*   "merge"  in the merge step, holding _reload_mutex                    *)
(*   "count"  after the merge, at the counter                             *)
(*   "exit"   its thread function has returned                            *)
(* threads.main is where the main thread is: "idle" between calls,        *)
(*   "ues_objects"  unload_effects: wait_idle and the loops over          *)
(*                  _techniques and _effects that destroy their objects   *)
(*   "ues_join"     unload_effects: joining the workers                   *)
(*   "ues_clear"    unload_effects: destroying textures, clearing lists   *)
(*   "spawn"        load_effects                                          *)
(*   "ue_objects"   unload_effect: wait_idle, the loop over _techniques   *)
(*                  and the objects of the effect                         *)
(*   "ue_lock", "ue_erase"  unload_effect: taking the mutex, the erase    *)
(*   "le_load", "le_lock", "le_merge", "le_count"  load_effect called by  *)
(*                  reload_effect                                         *)
(* threads.mutex is the holder of _reload_mutex: NoThread, MainThread or  *)
(* a worker.  threads.merged are the effects with entries in the lists.   *)
MaxWorkers == 2       \* effect files = worker threads of a load
MaxResets == 1        \* on_reset and reload_effect calls in one behaviour

NoThread == 0 - 1
MainThread == 0
Workers == 1..MaxWorkers

InitThreads ==
    /\ InitRegistry /\ InitCacheOff /\ InitUniformOff /\ InitRenderOff
    /\ transition = NoTransition /\ split = NoSplit
    /\ threads = [running |-> TRUE, is_initialized |-> TRUE, framecount0 |-> TRUE,
                  remaining |-> SizeMax, mutex |-> NoThread, main |-> "idle",
                  after |-> "", target |-> 0,
                  worker |-> [n \in Workers |-> "none"],
                  merged |-> {}, resets |-> MaxResets]

ThreadsUnchanged ==
    UNCHANGED <<registry_vars, cache_vars, uniform_vars, render_vars,
                transition_vars, split_vars>>

(* the counter update at the end of load_effect *)
CountDown(rem) == IF rem # 0 /\ rem # SizeMax THEN rem - 1 ELSE 0

(* ---- worker n ---- *)
WorkerBegin(n) ==
    /\ threads.worker[n] = "start"
    /\ threads' = [threads EXCEPT
          !.worker[n] = IF threads.is_initialized THEN "load" ELSE "exit"]
    /\ ThreadsUnchanged

WorkerParse(n) ==
    /\ threads.worker[n] = "load"
    /\ threads' = [threads EXCEPT !.worker[n] = "lock"]
    /\ ThreadsUnchanged

WorkerLock(n) ==
    /\ threads.worker[n] = "lock" /\ threads.mutex = NoThread
    /\ threads' = [threads EXCEPT !.worker[n] = "merge", !.mutex = n]
    /\ ThreadsUnchanged

WorkerMerge(n) ==
    /\ threads.worker[n] = "merge"
    /\ threads' = [threads EXCEPT !.worker[n] = "count", !.mutex = NoThread,
                                  !.merged = @ \cup {n}]
    /\ ThreadsUnchanged

WorkerCount(n) ==
    /\ threads.worker[n] = "count"
    /\ threads' = [threads EXCEPT !.worker[n] = "exit",
                                  !.remaining = CountDown(@)]
    /\ ThreadsUnchanged

(* ---- the main thread ---- *)
(* update_and_render_effects() with _framecount == 0: reload_effects() *)
ThreadFirstFrame ==
    /\ threads.main = "idle" /\ threads.is_initialized /\ threads.framecount0
    /\ threads' = [threads EXCEPT !.main = "ues_objects", !.after = "spawn",
                                  !.framecount0 = FALSE]
    /\ ThreadsUnchanged

(* update_and_render_effects() that finds the counter at 0: joins the     *)
(* workers, applies the preset and sets the counter to its idle value     *)
ThreadFrameFinish ==
    /\ threads.main = "idle" /\ threads.is_initialized /\ ~threads.framecount0
    /\ threads.remaining = 0
    /\ \A n \in Workers : threads.worker[n] \in {"none", "exit"}
    /\ threads' = [threads EXCEPT !.worker = [n \in Workers |-> "none"],
                                  !.remaining = SizeMax]
    /\ ThreadsUnchanged

(* on_reset(): _is_initialized goes false, then unload_effects() *)
ThreadOnReset ==
    /\ threads.main = "idle" /\ threads.is_initialized
    /\ threads.resets > 0
    /\ threads' = [threads EXCEPT !.is_initialized = FALSE, !.main = "ues_objects",
                                  !.after = "reset", !.resets = @ - 1]
    /\ ThreadsUnchanged

(* on_init() after an on_reset() *)
ThreadOnInit ==
    /\ threads.main = "idle" /\ ~threads.is_initialized
    /\ threads' = [threads EXCEPT !.is_initialized = TRUE, !.framecount0 = TRUE]
    /\ ThreadsUnchanged

(* unload_effects(): the object loops are done *)
UnloadEffectsObjects ==
    /\ threads.main = "ues_objects"
    /\ threads' = [threads EXCEPT !.main = "ues_join"]
    /\ ThreadsUnchanged

(* unload_effects(): every worker thread has been joined *)
UnloadEffectsJoin ==
    /\ threads.main = "ues_join"
    /\ \A n \in Workers : threads.worker[n] \in {"none", "exit"}
    /\ threads' = [threads EXCEPT !.main = "ues_clear",
                                  !.worker = [n \in Workers |-> "none"]]
    /\ ThreadsUnchanged

(* unload_effects(): textures destroyed, lists cleared *)
UnloadEffectsClear ==
    /\ threads.main = "ues_clear"
    /\ threads' = [threads EXCEPT !.merged = {},
                                  !.main = IF threads.after = "spawn" THEN "spawn" ELSE "idle",
                                  !.after = ""]
    /\ ThreadsUnchanged

(* load_effects(): the counter is set and the workers are started *)
ThreadLoadEffects ==
    /\ threads.main = "spawn"
    /\ threads' = [threads EXCEPT !.main = "idle", !.remaining = MaxWorkers,
                                  !.worker = [n \in Workers |-> "start"]]
    /\ ThreadsUnchanged

(* reload_effect(e) for an effect that is in the lists; the steps of its  *)
(* unload_effect and load_effect follow                                   *)
ThreadReloadEffect(e) ==
    /\ threads.main = "idle" /\ threads.is_initialized /\ ~threads.framecount0
    /\ e \in threads.merged
    /\ threads.resets > 0
    /\ threads' = [threads EXCEPT !.main = "ue_objects", !.target = e, !.resets = @ - 1]
    /\ ThreadsUnchanged

(* the steps of the main thread that only move on *)
MainStep(from, to) ==
    /\ threads.main = from
    /\ threads' = [threads EXCEPT !.main = to]
    /\ ThreadsUnchanged

(* the main thread takes _reload_mutex *)
MainLock(from, to) ==
    /\ threads.main = from /\ threads.mutex = NoThread
    /\ threads' = [threads EXCEPT !.main = to, !.mutex = MainThread]
    /\ ThreadsUnchanged

(* unload_effect(): textures and techniques of the effect erased *)
UnloadEffectErase ==
    /\ threads.main = "ue_erase"
    /\ threads' = [threads EXCEPT !.main = "le_load", !.mutex = NoThread,
                                  !.merged = @ \ {threads.target}]
    /\ ThreadsUnchanged

(* load_effect() on the main thread: the merge step *)
MainMerge ==
    /\ threads.main = "le_merge"
    /\ threads' = [threads EXCEPT !.main = "le_count", !.mutex = NoThread,
                                  !.merged = @ \cup {threads.target}]
    /\ ThreadsUnchanged

MainCount ==
    /\ threads.main = "le_count"
    /\ threads' = [threads EXCEPT !.main = "idle", !.target = 0,
                                  !.remaining = CountDown(@)]
    /\ ThreadsUnchanged

NextThreads ==
    \/ \E n \in Workers : WorkerBegin(n)
    \/ \E n \in Workers : WorkerParse(n)
    \/ \E n \in Workers : WorkerLock(n)
    \/ \E n \in Workers : WorkerMerge(n)
    \/ \E n \in Workers : WorkerCount(n)
    \/ ThreadFirstFrame
    \/ ThreadFrameFinish
    \/ ThreadOnReset
    \/ ThreadOnInit
    \/ UnloadEffectsObjects
    \/ UnloadEffectsJoin
    \/ UnloadEffectsClear
    \/ ThreadLoadEffects
    \/ \E e \in Workers : ThreadReloadEffect(e)
    \/ MainStep("ue_objects", "ue_lock")
    \/ MainLock("ue_lock", "ue_erase")
    \/ UnloadEffectErase
    \/ MainStep("le_load", "le_lock")
    \/ MainLock("le_lock", "le_merge")
    \/ MainMerge
    \/ MainCount

SpecThreads == InitThreads /\ [][NextThreads]_vars

(* the main thread reads or writes the texture list or the technique list *)
MainTouchesLists ==
    threads.main \in {"ues_objects", "ues_clear", "ue_objects", "ue_erase", "le_merge"}

(* C15: while unload_effects iterates the technique and effect lists to   *)
(* destroy their objects, and while it destroys the textures and clears   *)
(* the lists, no worker is in load_effect: every worker has been joined   *)
(* or has left its thread function.                                       *)
C15_WorkersJoinedBeforeTeardown ==
    threads.running =>
       (threads.main \in {"ues_objects", "ues_clear"} =>
            \A n \in Workers : threads.worker[n] \notin {"load", "lock", "merge", "count"})

(* C17: no two workers are in the merge step at once, the erase of        *)
(* unload_effect never overlaps a merge step, and the main thread never   *)
(* reads or writes the texture or technique list while a worker is in its *)
(* merge step (a worker in the merge holds _reload_mutex, so the main     *)
(* thread cannot hold it then).                                           *)
C17_ListsUnderMutex ==
    threads.running =>
       /\ \A n, m \in Workers :
             n # m => ~(threads.worker[n] = "merge" /\ threads.worker[m] = "merge")
       /\ ~(threads.main \in {"ue_erase", "le_merge"}
              /\ \E n \in Workers : threads.worker[n] = "merge")
       /\ (\E n \in Workers : threads.worker[n] = "merge") => ~MainTouchesLists

(* ------------------------ the compile queue ---------------------------- *)
(* C21: the compile queue never holds an effect index twice; the index a  *)
(* compile-queue frame pops designates an effect record that exists and   *)
(* was loaded (merged) in the current load cycle; and an on_reset, an     *)
(* unload_effects or a reload leaves no index in the queue that was       *)
(* queued before it.                                                      *)
C21_QueueHoldsLoadedEffects ==
    [][/\ \A j, k \in DOMAIN queue' : j # k => queue'[j] # queue'[k]
       /\ last'.frame = "compile" =>
             /\ last'.effect \in DOMAIN effects
             /\ effects[last'.effect].merged
       /\ last'.op \in {"on_reset", "unload_effects"} => queue' = <<>>]_vars

(* ------------------- the semantic-binding lists ------------------------ *)
(* the descriptor an entry of texture_semantic_to_binding designates *)
BindingKey(b) == DescKey(b.set[1], b.set[2], b.set[3], b.index)

(* C22: every entry of an effect's texture_semantic_to_binding refers to  *)
(* a descriptor set of a pass that is initialized and not unloaded, no    *)
(* binding is listed twice, and the descriptor updates that               *)
(* update_texture_bindings issues target existing descriptor sets only.   *)
C22_BindingsReferToLiveSets ==
    /\ \A e \in DOMAIN effects :
          LET sb == effects[e].semantic_to_binding IN
          /\ \A j \in DOMAIN sb :
                BindingKey(sb[j]) \in AssignedKeys(techniques, Effects, desc)
          /\ \A j, k \in DOMAIN sb : j # k => sb[j] # sb[k]
    /\ last.op = "update_texture_bindings" =>
          \A u \in DOMAIN dev_log :
              dev_log[u].call = "update_descriptor_sets"
                 => Range(dev_log[u].keys) \subseteq DOMAIN desc

(* ------------------- the back-buffer copy per pass --------------------- *)
(* C28: render_technique copies the back buffer immediately before pass k *)
(* exactly when k is the first pass or pass k-1 was a graphics pass with  *)
(* no declared render target; there is no copy before a pass that follows *)
(* a compute pass or a pass with render targets of its own.               *)
C28_CopyIffBackBufferWritten ==
    \A k \in DOMAIN render.cmds :
        render.cmds[k].copied <=> (k = 1 \/ BackBufferPass(k - 1))

(* a finished technique of a back-buffer pass, a compute pass and a pass  *)
(* with a render target: copies before the first two, none before the     *)
(* third                                                                  *)
C28_Witness ==
    /\ ~render.running /\ Len(render.cmds) = 3
    /\ BackBufferPass(1) /\ render.passes[2].cs
    /\ render.passes[3].num_render_targets = 1
    /\ render.cmds[1].copied /\ render.cmds[2].copied /\ ~render.cmds[3].copied

(* ================== the command list of render_technique ================ *)
(* render_technique once more, with the commands it records: the          *)
(* barriers, the copy of the back buffer, the draw or dispatch and the    *)
(* mipmap generation of every pass.  The variable render holds the pass   *)
(* descriptions, what init_effect made of them and the command list.      *)
MaxCmdPasses == 2       \* passes of the technique
MaxStorages == 2        \* storage objects a compute pass uses

TextureNames == {"A", "B"}
(* texture.levels: B has a mip chain *)
Levels(name) == IF name = "B" THEN 2 ELSE 1

BackBufferResource == "backbuffer"          \* get_backbuffer_resource()
BackBufferTexture == "_backbuffer_texture"  \* _backbuffer_texture

NameLists(n) == UNION {[1..k -> TextureNames] : k \in 0..n}

(* reshadefx::pass_info as far as it matters here: a compute pass with    *)
(* the textures of its storage objects, or a graphics pass with its       *)
(* render_target_names up to the first empty one                          *)
PassInfos ==
    {[cs |-> TRUE, render_target_names |-> <<>>, storages |-> st] :
        st \in NameLists(MaxStorages)}
    \cup {[cs |-> FALSE, render_target_names |-> rt, storages |-> <<>>] :
        rt \in NameLists(MaxRenderTargets)}

(* the names in a list that belong to textures with more than one level *)
WithMipmaps(names) == SelectSeq(names, LAMBDA t : Levels(t) > 1)

(* technique::pass_data as init_effect fills it: the resource of every    *)
(* render target and then of every storage goes to modified_resources,    *)
(* and its view to generate_mipmap_views if the texture has mip levels    *)
PassData(info) ==
    LET rt == IF info.cs THEN <<>> ELSE info.render_target_names IN
    [num_render_targets    |-> Len(rt),
     modified_resources    |-> rt \o info.storages,
     generate_mipmap_views |-> WithMipmaps(rt) \o WithMipmaps(info.storages)]

ConstSeq(n, x) == [i \in 1..n |-> x]

(* a command of pass k on the command list *)
Cmd(k, call) == [pass |-> k, call |-> call, resources |-> <<>>, old |-> <<>>, new |-> <<>>]
(* cmd_list->barrier(count, resources, old, new) *)
Barrier(k, resources, old, new) ==
    [pass |-> k, call |-> "barrier", resources |-> resources, old |-> old, new |-> new]
(* cmd_list->generate_mipmaps(view) for the views of the list *)
GenerateMipmaps(k, views) ==
    [i \in DOMAIN views |-> [Cmd(k, "generate_mipmaps") EXCEPT !.resources = <<views[i]>>]]

(* the copy of the back buffer at the head of the pass loop *)
BackBufferCopy(k) ==
    LET resources == <<BackBufferResource, BackBufferTexture>>
        state_old == <<"render_target", "shader_resource">>
        state_new == <<"copy_source", "copy_dest">>
    IN  <<Barrier(k, resources, state_old, state_new),
          Cmd(k, "copy_resource"),
          Barrier(k, resources, state_new, state_old)>>

(* the pass loop with the mipmaps generated before the transition back *)
PassCommandsMipmapsFirst(k, info, data, copy) ==
    LET n         == Len(data.modified_resources)
        state_old == ConstSeq(n, "shader_resource")
        state_new == ConstSeq(n, IF info.cs THEN "unordered_access" ELSE "render_target")
        head      == IF copy THEN BackBufferCopy(k) ELSE <<>>
        work      == IF info.cs
                     THEN <<Cmd(k, "dispatch")>>
                     ELSE <<Cmd(k, "begin_render_pass"), Cmd(k, "draw"),
                            Cmd(k, "finish_render_pass")>>
    IN  [flag |-> ~info.cs /\ data.num_render_targets = 0,
         cmds |-> head
                    \o <<Cmd(k, "bind_pipeline"),
                         Barrier(k, data.modified_resources, state_old, state_new)>>
                    \o work
                    \o GenerateMipmaps(k, data.generate_mipmap_views)
                    \o <<Barrier(k, data.modified_resources, state_new, state_old)>>]

(* One iteration of the pass loop for pass k with the flag at copy: the   *)
(* flag after it and the commands it records.                             *)
PassCommands(k, info, data, copy) ==
    LET n         == Len(data.modified_resources)
        state_old == ConstSeq(n, "shader_resource")
        state_new == ConstSeq(n, IF info.cs THEN "unordered_access" ELSE "render_target")
        head      == IF copy THEN BackBufferCopy(k) ELSE <<>>
        work      == IF info.cs
                     THEN <<Cmd(k, "dispatch")>>
                     ELSE <<Cmd(k, "begin_render_pass"), Cmd(k, "draw"),
                            Cmd(k, "finish_render_pass")>>
    IN  [flag |-> ~info.cs /\ data.num_render_targets = 0,
         cmds |-> head
                    \o <<Cmd(k, "bind_pipeline"),
                         Barrier(k, data.modified_resources, state_old, state_new)>>
                    \o work
                    \o <<Barrier(k, data.modified_resources, state_new, state_old)>>
                    \o GenerateMipmaps(k, data.generate_mipmap_views)]

NotRecording == [running |-> FALSE, passes |-> <<>>, passes_data |-> <<>>, pass_index |-> 0,
                 needs_implicit_backbuffer_copy |-> FALSE, cmds |-> <<>>]

InitCommands ==
    /\ InitRegistry /\ InitCacheOff /\ InitUniformOff /\ InitOthersOff
    /\ render = NotRecording

(* entry, for a technique that init_effect has initialized *)
RecordTechniqueBegin(passes) ==
    /\ ~render.running
    /\ render' = [running |-> TRUE, passes |-> passes,
                  passes_data |-> [i \in DOMAIN passes |-> PassData(passes[i])],
                  pass_index |-> 0,
                  needs_implicit_backbuffer_copy |-> TRUE, cmds |-> <<>>]
    /\ UNCHANGED <<registry_vars, cache_vars, uniform_vars, other_vars>>

(* one iteration of the pass loop *)
RecordTechniquePass ==
    /\ render.running /\ render.pass_index < Len(render.passes)
    /\ LET k == render.pass_index + 1
           r == PassCommands(k, render.passes[k], render.passes_data[k],
                             render.needs_implicit_backbuffer_copy) IN
       render' = [render EXCEPT !.pass_index = k,
                                !.needs_implicit_backbuffer_copy = r.flag,
                                !.cmds = @ \o r.cmds]
    /\ UNCHANGED <<registry_vars, cache_vars, uniform_vars, other_vars>>

RecordTechniqueEnd ==
    /\ render.running /\ render.pass_index = Len(render.passes)
    /\ render' = [render EXCEPT !.running = FALSE]
    /\ UNCHANGED <<registry_vars, cache_vars, uniform_vars, other_vars>>

NextCommands ==
    \/ \E n \in 1..MaxCmdPasses : \E passes \in [1..n -> PassInfos] :
          RecordTechniqueBegin(passes)
    \/ RecordTechniquePass
    \/ RecordTechniqueEnd

SpecCommands == InitCommands /\ [][NextCommands]_vars

(* the state every resource is in when render_technique starts: the back  *)
(* buffer is a render target, the textures are shader resources           *)
StatesAtEntry ==
    [r \in TextureNames \cup {BackBufferResource, BackBufferTexture} |->
        IF r = BackBufferResource THEN "render_target" ELSE "shader_resource"]

(* The transitions of one barrier call taken in order from entry j on:    *)
(* the states afterwards, and the entries whose old state is not the      *)
(* state the resource is in.                                              *)
RECURSIVE Transition(_, _, _, _, _)
Transition(c, i, j, st, bad) ==
    IF j > Len(c.resources) THEN [state |-> st, bad |-> bad]
    ELSE Transition(c, i, j + 1, [st EXCEPT ![c.resources[j]] = c.new[j]],
                    IF st[c.resources[j]] = c.old[j] THEN bad ELSE bad \cup {<<i, j>>})

(* the command list replayed from command i on *)
RECURSIVE Replay(_, _, _, _)
Replay(cmds, i, st, bad) ==
    IF i > Len(cmds) THEN [state |-> st, bad |-> bad]
    ELSE IF cmds[i].call = "barrier"
    THEN LET t == Transition(cmds[i], i, 1, st, bad) IN Replay(cmds, i + 1, t.state, t.bad)
    ELSE Replay(cmds, i + 1, st, bad)

(* the state a pass writes its modified resources in *)
WriteState(info) == IF info.cs THEN "unordered_access" ELSE "render_target"

(* command i is the draw or the dispatch of pass k *)
IsWork(i, k) ==
    render.cmds[i].pass = k /\ render.cmds[i].call \in {"draw", "dispatch"}

(* command i is the barrier of pass k that takes its modified resources   *)
(* from the state old to the state new                                    *)
IsPassBarrier(i, k, old, new) ==
    LET n == Len(render.passes_data[k].modified_resources) IN
    /\ render.cmds[i].pass = k /\ render.cmds[i].call = "barrier"
    /\ render.cmds[i].resources = render.passes_data[k].modified_resources
    /\ render.cmds[i].old = ConstSeq(n, old)
    /\ render.cmds[i].new = ConstSeq(n, new)

(* C29: for every pass that render_technique has recorded, the modified   *)
(* resources go from shader-read to the write state of the pass kind      *)
(* before the draw or dispatch and back to shader-read after it; between  *)
(* the passes and at the end every effect texture is in the shader-read   *)
(* state; and no barrier names an old state the resource is not in.       *)
C29_BarriersMatchStates ==
    /\ \A k \in 1..render.pass_index :
          \E a, w, b \in DOMAIN render.cmds :
              /\ a < w /\ w < b
              /\ IsPassBarrier(a, k, "shader_resource", WriteState(render.passes[k]))
              /\ IsWork(w, k)
              /\ IsPassBarrier(b, k, WriteState(render.passes[k]), "shader_resource")
    /\ \E r \in {Replay(render.cmds, 1, StatesAtEntry, {})} :
          /\ \A t \in TextureNames \cup {BackBufferTexture} :
                r.state[t] = "shader_resource"
          /\ r.bad = {}

(* C30 as claimed: in every pass the mipmap generation comes after the    *)
(* draw or dispatch and before the barrier that takes the modified        *)
(* resources back to the shader-read state.                               *)
C30_MipmapsBeforeBarrierBack ==
    \A m \in DOMAIN render.cmds :
        render.cmds[m].call = "generate_mipmaps" =>
            LET k == render.cmds[m].pass IN
            /\ \E w \in 1..(m - 1) : IsWork(w, k)
            /\ \A b \in DOMAIN render.cmds :
                  IsPassBarrier(b, k, WriteState(render.passes[k]), "shader_resource")
                     => m < b

(* C30 as the code has it: in every pass the order is the draw or         *)
(* dispatch, then the barrier that takes the modified resources back to   *)
(* the shader-read state, then the mipmap generation, which is the last   *)
(* thing the pass records.                                                *)
C30_MipmapsAfterBarrierBack ==
    \A m \in DOMAIN render.cmds :
        render.cmds[m].call = "generate_mipmaps" =>
            LET k == render.cmds[m].pass IN
            /\ \E w, b \in 1..(m - 1) :
                  /\ w < b
                  /\ IsWork(w, k)
                  /\ IsPassBarrier(b, k, WriteState(render.passes[k]), "shader_resource")
            /\ \A b \in DOMAIN render.cmds :
                  (render.cmds[b].pass = k /\ render.cmds[b].call = "barrier") => b < m

(* a finished technique of a graphics pass that renders to the texture    *)
(* with mip levels and a compute pass that writes it: both generated its  *)
(* mipmaps                                                                *)
C30_Witness ==
    /\ ~render.running /\ render.pass_index = 2
    /\ ~render.passes[1].cs /\ render.passes[1].render_target_names = <<"B">>
    /\ render.passes[2].cs /\ render.passes[2].storages = <<"B">>
    /\ \A k \in 1..2 : \E m \in DOMAIN render.cmds :
          render.cmds[m].pass = k /\ render.cmds[m].call = "generate_mipmaps"

(* =================== the load cycle and its counter ===================== *)
(* load_effects, the worker loops and _reload_remaining_effects, with the *)
(* frames and on_reset of the main thread.  The variable threads holds    *)
(*   is_initialized, framecount0   _is_initialized, _framecount == 0      *)
(*   remaining                     _reload_remaining_effects              *)
(*   files, num_splits             effect_files.size() and num_splits of  *)
(*                                 the last load_effects                  *)
(*   pc[n], i[n], outcome[n]       where worker n is, its loop variable   *)
(*                                 and how its load_effect call goes      *)
(*   done                          the indices whose load_effect call has *)
(*                                 passed the counter                     *)
(*   counting                      the counter was set by the last        *)
(*                                 load_effects and not yet set to idle   *)
(*   main                          where the main thread is               *)
(* A worker is at "none" (no thread), "test" (the head of its loop),      *)
(* "load" (in load_effect for index i), "count" (at the test of the       *)
(* counter), "dec" (at the decrement) or "exit".  The counter is read and *)
(* written in single steps: its test and its decrement are two steps of   *)
(* a worker, and other threads run between them.                          *)
MaxLoadFiles == 3       \* effect files a load_effects call finds
LoadConcurrency == 3    \* the answer of hardware_concurrency()

LoadWorkers == 0..(NumSplits(MaxLoadFiles, LoadConcurrency) - 1)
Outcomes == {"loaded", "failed", "skipped"}

InitLoad ==
    /\ InitRegistry /\ InitCacheOff /\ InitUniformOff /\ InitRenderOff
    /\ transition = NoTransition /\ split = NoSplit
    /\ threads = [running |-> FALSE, is_initialized |-> TRUE, framecount0 |-> TRUE,
                  remaining |-> SizeMax, files |-> 0, num_splits |-> 0,
                  pc |-> [n \in LoadWorkers |-> "none"],
                  i |-> [n \in LoadWorkers |-> 0],
                  outcome |-> [n \in LoadWorkers |-> ""],
                  done |-> {}, counting |-> FALSE,
                  main |-> "idle", resets |-> MaxResets]

(* the worker threads have all been joined or have returned *)
Joinable == \A n \in LoadWorkers : threads.pc[n] \in {"none", "exit"}

(* ---- worker n ---- *)
(* the head of the worker loop, which does not look at _is_initialized *)
LoadWorkerTestIgnoringReset(n) ==
    /\ threads.pc[n] = "test"
    /\ threads' =
          IF threads.i[n] < threads.files
          THEN IF Assigned(threads.i[n], n, threads.num_splits, threads.files)
               THEN [threads EXCEPT !.pc[n] = "load"]
               ELSE [threads EXCEPT !.i[n] = @ + 1]
          ELSE [threads EXCEPT !.pc[n] = "exit"]
    /\ ThreadsUnchanged

(* the head of the worker loop: the test i < size && _is_initialized and  *)
(* the test whether index i falls to this worker                          *)
LoadWorkerTest(n) ==
    /\ threads.pc[n] = "test"
    /\ threads' =
          IF threads.i[n] < threads.files /\ threads.is_initialized
          THEN IF Assigned(threads.i[n], n, threads.num_splits, threads.files)
               THEN [threads EXCEPT !.pc[n] = "load"]
               ELSE [threads EXCEPT !.i[n] = @ + 1]
          ELSE [threads EXCEPT !.pc[n] = "exit"]
    /\ ThreadsUnchanged

(* load_effect for index i up to the counter: the file is skipped, fails  *)
(* to load or compile, or is loaded and merged                            *)
LoadWorkerLoad(n, outcome) ==
    /\ threads.pc[n] = "load"
    /\ threads' = [threads EXCEPT !.pc[n] = "count", !.outcome[n] = outcome]
    /\ ThreadsUnchanged

(* the call returns: the loop goes on with the next index *)
Returned(n, rem) ==
    [threads EXCEPT !.pc[n] = "test", !.outcome[n] = "", !.i[n] = @ + 1,
                    !.done = @ \cup {threads.i[n]}, !.remaining = rem]

(* the test of the counter with a skip path that returns without it *)
LoadWorkerCheckSkipUncounted(n) ==
    /\ threads.pc[n] = "count"
    /\ threads' =
          IF threads.outcome[n] = "skipped"
          THEN Returned(n, threads.remaining)
          ELSE IF threads.remaining # 0 /\ threads.remaining # SizeMax
          THEN [threads EXCEPT !.pc[n] = "dec"]
          ELSE Returned(n, 0)
    /\ ThreadsUnchanged

(* the test of the counter, on the skip path and at the end of            *)
(* load_effect (which sets the counter to 0 when the test fails)          *)
LoadWorkerCheck(n) ==
    /\ threads.pc[n] = "count"
    /\ threads' =
          IF threads.remaining # 0 /\ threads.remaining # SizeMax
          THEN [threads EXCEPT !.pc[n] = "dec"]
          ELSE Returned(n, IF threads.outcome[n] = "skipped" THEN threads.remaining ELSE 0)
    /\ ThreadsUnchanged

(* a worker that does not count the files it skips *)
LoadWorkerDecrementUnlessSkipped(n) ==
    /\ threads.pc[n] = "dec"
    /\ threads' = Returned(n, IF threads.outcome[n] = "skipped" THEN threads.remaining
                              ELSE threads.remaining - 1)
    /\ ThreadsUnchanged

(* _reload_remaining_effects-- *)
LoadWorkerDecrement(n) ==
    /\ threads.pc[n] = "dec"
    /\ threads' = Returned(n, threads.remaining - 1)
    /\ ThreadsUnchanged

(* ---- the main thread ---- *)
(* update_and_render_effects() up to the test of the counter; with        *)
(* _framecount == 0 it calls reload_effects() first: unload_effects (no   *)
(* worker is left to join) and load_effects, which finds files effect     *)
(* files and returns at once when there is none                           *)
LoadFrame(files) ==
    /\ threads.main = "idle" /\ threads.is_initialized
    /\ threads' =
          IF ~threads.framecount0 THEN [threads EXCEPT !.main = "frame"]
          ELSE IF files = 0
          THEN [threads EXCEPT !.main = "frame", !.framecount0 = FALSE,
                               !.files = 0, !.num_splits = 0, !.done = {},
                               !.counting = FALSE]
          ELSE [threads EXCEPT !.main = "frame", !.framecount0 = FALSE,
                               !.files = files,
                               !.num_splits = NumSplits(files, LoadConcurrency),
                               !.remaining = files, !.done = {}, !.counting = TRUE,
                               !.i = [n \in LoadWorkers |-> 0],
                               !.pc = [n \in LoadWorkers |->
                                         IF n < NumSplits(files, LoadConcurrency)
                                         THEN "test" ELSE "none"]]
    /\ ThreadsUnchanged

(* the test of the counter in update_and_render_effects: at 0 the workers *)
(* are joined; otherwise the call returns (loading) or goes on to render  *)
LoadFrameTest ==
    /\ threads.main = "frame"
    /\ threads' = [threads EXCEPT
          !.main = IF threads.remaining = 0 THEN "frame_join" ELSE "idle"]
    /\ ThreadsUnchanged

(* the joins have returned: the preset is applied and the counter gets    *)
(* its idle value                                                         *)
LoadFrameJoined ==
    /\ threads.main = "frame_join" /\ Joinable
    /\ threads' = [threads EXCEPT !.main = "idle", !.remaining = SizeMax,
                                  !.counting = FALSE,
                                  !.pc = [n \in LoadWorkers |-> "none"]]
    /\ ThreadsUnchanged

(* on_reset(): _is_initialized goes false; unload_effects() then joins    *)
(* the workers                                                            *)
LoadOnReset ==
    /\ threads.main = "idle" /\ threads.is_initialized /\ ~threads.framecount0
    /\ threads.resets > 0
    /\ threads' = [threads EXCEPT !.is_initialized = FALSE, !.main = "reset_join",
                                  !.resets = @ - 1]
    /\ ThreadsUnchanged

(* the joins of unload_effects have returned; on_reset finishes *)
LoadResetJoined ==
    /\ threads.main = "reset_join" /\ Joinable
    /\ threads' = [threads EXCEPT !.main = "idle",
                                  !.pc = [n \in LoadWorkers |-> "none"]]
    /\ ThreadsUnchanged

(* on_init() after an on_reset() *)
LoadOnInit ==
    /\ threads.main = "idle" /\ ~threads.is_initialized
    /\ threads' = [threads EXCEPT !.is_initialized = TRUE, !.framecount0 = TRUE]
    /\ ThreadsUnchanged

LoadWorkerNext(n) ==
    \/ LoadWorkerTest(n)
    \/ \E outcome \in Outcomes : LoadWorkerLoad(n, outcome)
    \/ LoadWorkerCheck(n)
    \/ LoadWorkerDecrement(n)

NextLoad ==
    \/ \E n \in LoadWorkers : LoadWorkerNext(n)
    \/ \E files \in 0..MaxLoadFiles : LoadFrame(files)
    \/ LoadFrameTest
    \/ LoadFrameJoined
    \/ LoadOnReset
    \/ LoadResetJoined
    \/ LoadOnInit

SpecLoad == InitLoad /\ [][NextLoad]_vars

(* The threads run: every worker thread that can take a step takes one    *)
(* in the end, frames keep being presented, and a join returns once the   *)
(* threads have returned.                                                 *)
SpecLoadFair ==
    /\ SpecLoad
    /\ \A n \in LoadWorkers : WF_vars(LoadWorkerNext(n))
    /\ WF_vars(\E files \in 0..MaxLoadFiles : LoadFrame(files))
    /\ WF_vars(LoadFrameTest) /\ WF_vars(LoadFrameJoined)
    /\ WF_vars(LoadResetJoined) /\ WF_vars(LoadOnInit)

(* the runtime is in the loading state: reload_effects has run since the  *)
(* last on_init and the counter does not have its idle value              *)
Loading ==
    threads.is_initialized /\ ~threads.framecount0 /\ threads.remaining # SizeMax

EnableVariants == {1, 2}
EnableTechniqueNames == UNION {DOMAIN Module(v).techniques : v \in EnableVariants}

NextEnable ==
    \/ UpdateAndRenderEffects
    \/ \E e \in Effects : WorkerLoadEffect(e, EnableVariants)
    \/ \E i \in 1..(2 * NumEffects) : CallEnableTechnique(i)
    \/ \E i \in 1..(2 * NumEffects) : CallDisableTechnique(i)

SpecEnable ==
    /\ Init /\ [][NextEnable]_vars
    /\ WF_vars(UpdateAndRenderEffects)
    /\ WF_vars(\E e \in Effects : WorkerLoadEffect(e, EnableVariants))

(* the technique name of effect e is in the list and P holds of it *)
TechniqueIs(e, name, P(_)) ==
    \E i \in DOMAIN techniques :
        techniques[i].effect_index = e /\ techniques[i].name = name /\ P(techniques[i])

EnabledUninitialized(t) == t.enabled /\ t.passes_data = <<>>
Renderable(t) == t.passes_data # <<>> /\ \A p \in DOMAIN t.passes_data : t.passes_data[p]
Disabled(t) == ~t.enabled

(* C23: a technique that is enabled while its effect is compiled and not  *)
(* initialized does not stay so: with frames going on and no reload or    *)
(* reset, the effect is taken from the compile queue and the technique    *)
(* becomes renderable (passes_data filled) or is disabled.                *)
C23_EnabledTechniqueGetsInitialized ==
    \A e \in Effects : \A name \in EnableTechniqueNames :
        (e \in DOMAIN effects /\ effects[e].compiled
            /\ TechniqueIs(e, name, EnabledUninitialized))
          ~> (TechniqueIs(e, name, Renderable) \/ TechniqueIs(e, name, Disabled))

(* enable_technique has just enabled the technique of an effect that is   *)
(* compiled and has no GPU objects yet, and queued the effect             *)
C23_Witness ==
    /\ last.op = "enable_technique"
    /\ last.effect \in DOMAIN effects /\ effects[last.effect].compiled
    /\ ~effects[last.effect].layout
    /\ TechniqueIs(last.effect, 1, EnabledUninitialized)
    /\ Contains(queue, last.effect)

(* ================== the reloads of a preset switch ====================== *)
(* The frames around a preset switch: update_and_render_effects and then  *)
(* on_present in every frame, and the workers of a reload.  The variable  *)
(* transition holds                                                       *)
(*   performance_mode   _performance_mode                                 *)
(*   defs_differ        the PreprocessorDefinitions of the current preset *)
(*                      differ from _preset_preprocessor_definitions      *)
(*   listed             what the lookup of the effect of a technique in   *)
(*                      the preset's list finds: a "loaded" effect, a     *)
(*                      "skipped" one, or none ("missing")                *)
(*   remaining, files   the counter and the number of effect files        *)
(*   queue              the length of the compile queue                   *)
(*   delay, elapsed     _preset_transition_delay and the time since the   *)
(*                      switch, both in frame times                       *)
(*   reloads            the reload_effects calls since the switch         *)
(*   phase              which of the two calls of a frame comes next      *)
MaxSwitchDelay == 3     \* longest transition delay, in frames
MaxSwitchFiles == 2     \* effect files
MaxReloads == 3         \* reload_effects calls counted

InitSwitch ==
    /\ InitRegistry /\ InitCacheOff /\ InitUniformOff /\ InitRenderOff
    /\ split = NoSplit /\ threads = NoThreads
    /\ \E pm \in BOOLEAN, dd \in BOOLEAN, listed \in {"loaded", "skipped", "missing"},
          delay \in 0..MaxSwitchDelay, files \in 1..MaxSwitchFiles :
          transition = [in_transition |-> FALSE, switched |-> FALSE,
                        performance_mode |-> pm, defs_differ |-> dd, listed |-> listed,
                        remaining |-> SizeMax, files |-> files, queue |-> 0,
                        delay |-> delay, elapsed |-> 0, reloads |-> 0,
                        phase |-> "render"]

(* reload_effects(): everything is unloaded and load_effects reads the    *)
(* definitions of the preset, sets the counter and starts the workers,    *)
(* which do not skip an effect that the preset lists                      *)
SwitchReloadEffects(tr) ==
    [tr EXCEPT !.defs_differ = FALSE,
               !.listed = IF @ = "skipped" THEN "loaded" ELSE @,
               !.remaining = tr.files,
               !.reloads = Min2(@ + 1, MaxReloads)]

(* load_current_preset(): the reload tests unless the counter is 0, else  *)
(* the end of the transition when its time has elapsed, and the values    *)
(* and technique states of the preset (an enabled technique of an effect  *)
(* without GPU objects puts the effect into the compile queue)            *)
SwitchLoadCurrentPreset(tr) ==
    IF tr.remaining # 0 /\ (tr.performance_mode \/ tr.defs_differ)
    THEN SwitchReloadEffects(tr)
    ELSE IF tr.remaining # 0 /\ tr.listed # "loaded"
    THEN SwitchReloadEffects(tr)
    ELSE [tr EXCEPT !.in_transition = tr.in_transition /\ ~(tr.delay - tr.elapsed <= 0),
                    !.queue = IF tr.remaining = 0 /\ tr.listed = "loaded" THEN 1 ELSE @]

(* update_and_render_effects(): with the counter at 0 it joins the        *)
(* workers, calls load_current_preset and sets the counter to its idle    *)
(* value; while effects load it returns; else it takes one effect from    *)
(* the compile queue                                                      *)
SwitchUpdateAndRender ==
    /\ transition.phase = "render"
    /\ transition' =
          IF transition.remaining = 0
          THEN [SwitchLoadCurrentPreset(transition) EXCEPT
                   !.remaining = SizeMax, !.phase = "present"]
          ELSE IF transition.remaining # SizeMax
          THEN [transition EXCEPT !.phase = "present"]
          ELSE [transition EXCEPT !.phase = "present",
                                  !.queue = IF @ > 0 THEN @ - 1 ELSE 0]
    /\ UNCHANGED <<registry_vars, cache_vars, uniform_vars, render_vars,
                   split_vars, thread_vars>>

(* on_present(); pressed says whether the next-preset key went down.      *)
(* The shortcuts are looked at only while nothing loads and the compile   *)
(* queue is empty.                                                        *)
SwitchOnPresent(pressed) ==
    /\ transition.phase = "present"
    /\ pressed => ~transition.switched
    /\ LET t1 == [transition EXCEPT
                     !.phase = "render",
                     !.elapsed = IF transition.switched
                                 THEN Min2(@ + 1, transition.delay) ELSE @]
           open == t1.remaining = SizeMax /\ t1.queue = 0
           t2 == IF open /\ pressed
                 THEN [t1 EXCEPT !.in_transition = TRUE, !.switched = TRUE, !.elapsed = 0]
                 ELSE t1
       IN  transition' = IF open /\ t2.in_transition THEN SwitchLoadCurrentPreset(t2) ELSE t2
    /\ UNCHANGED <<registry_vars, cache_vars, uniform_vars, render_vars,
                   split_vars, thread_vars>>

(* a worker has finished a file *)
SwitchWorker ==
    /\ transition.remaining \in 1..MaxSwitchFiles
    /\ transition' = [transition EXCEPT !.remaining = @ - 1]
    /\ UNCHANGED <<registry_vars, cache_vars, uniform_vars, render_vars,
                   split_vars, thread_vars>>

NextSwitch ==
    \/ SwitchUpdateAndRender
    \/ \E pressed \in BOOLEAN : SwitchOnPresent(pressed)
    \/ SwitchWorker

SpecSwitch == InitSwitch /\ [][NextSwitch]_vars

(* C27: one preset switch causes at most one reload_effects call: once    *)
(* the switch has reloaded the effects (for changed preprocessor          *)
(* definitions, performance mode, or a listed technique whose effect is   *)
(* not loaded), the later load_current_preset calls of its transition     *)
(* update values only.                                                    *)
C27_OneReloadPerSwitch ==
    transition.switched => transition.reloads <= 1

(* ============ the shared depth-stencil buffer in render_technique ======= *)
(* render_technique for techniques whose passes may use the stencil       *)
(* buffer _effect_stencil, which has the size of the back buffer.  The    *)
(* variable render holds the passes as init_effect left them, the local   *)
(* is_effect_stencil_cleared and what every pass did with the buffer.     *)
MaxStencilPasses == 2   \* passes of the technique
BufferWidth == 2        \* _width
BufferHeight == 2       \* _height

(* reshadefx::pass_info as the compiler hands it over: the viewport of a   *)
(* pass with render targets is the size of its targets                    *)
StencilPassInfos ==
    {[cs |-> TRUE, stencil_enable |-> FALSE, has_render_target |-> FALSE,
      viewport_width |-> BufferWidth, viewport_height |-> BufferHeight]}
    \cup [cs : {FALSE}, stencil_enable : BOOLEAN, has_render_target : BOOLEAN,
          viewport_width : {BufferWidth - 1, BufferWidth},
          viewport_height : {BufferHeight - 1, BufferHeight}]

(* init_effect on a graphics pass: a pass without render targets gets the *)
(* viewport of the back buffer, and the pipeline gets a depth-stencil     *)
(* format only for a stencil pass with a viewport of the full size        *)
InitStencilPass(info) ==
    LET sized == IF ~info.cs /\ ~info.has_render_target
                 THEN [info EXCEPT !.viewport_width = BufferWidth,
                                   !.viewport_height = BufferHeight]
                 ELSE info
    IN  [info |-> sized,
         depth_stencil_format |-> /\ ~info.cs
                                  /\ sized.stencil_enable
                                  /\ sized.viewport_width = BufferWidth
                                  /\ sized.viewport_height = BufferHeight]

(* the pass loop attaching the buffer to every stencil pass *)
StencilPassAnySize(pass, is_effect_stencil_cleared) ==
    LET info == pass.info IN
    IF info.cs
    THEN [is_effect_stencil_cleared |-> is_effect_stencil_cleared,
          cleared |-> FALSE, attached |-> FALSE]
    ELSE [is_effect_stencil_cleared |-> is_effect_stencil_cleared \/ info.stencil_enable,
          cleared  |-> info.stencil_enable /\ ~is_effect_stencil_cleared,
          attached |-> info.stencil_enable]

(* One iteration of the pass loop as far as the stencil buffer goes: a    *)
(* compute pass leaves it alone; a graphics pass clears it when it has    *)
(* stencil enabled and no pass of this call has cleared it yet, and       *)
(* begin_render_pass gets _effect_stencil_view or the null view.          *)
StencilPass(pass, is_effect_stencil_cleared) ==
    LET info == pass.info IN
    IF info.cs
    THEN [is_effect_stencil_cleared |-> is_effect_stencil_cleared,
          cleared |-> FALSE, attached |-> FALSE]
    ELSE [is_effect_stencil_cleared |-> is_effect_stencil_cleared \/ info.stencil_enable,
          cleared  |-> info.stencil_enable /\ ~is_effect_stencil_cleared,
          attached |-> IF ~info.has_render_target
                       THEN info.stencil_enable
                       ELSE /\ info.stencil_enable
                            /\ info.viewport_width = BufferWidth
                            /\ info.viewport_height = BufferHeight]

NoStencilRun == [running |-> FALSE, passes |-> <<>>, pass_index |-> 0,
                 is_effect_stencil_cleared |-> FALSE, log |-> <<>>]

InitStencil ==
    /\ InitRegistry /\ InitCacheOff /\ InitUniformOff /\ InitOthersOff
    /\ render = NoStencilRun

(* entry, for a technique that init_effect has initialized *)
StencilTechniqueBegin(infos) ==
    /\ ~render.running
    /\ render' = [running |-> TRUE,
                  passes |-> [i \in DOMAIN infos |-> InitStencilPass(infos[i])],
                  pass_index |-> 0, is_effect_stencil_cleared |-> FALSE, log |-> <<>>]
    /\ UNCHANGED <<registry_vars, cache_vars, uniform_vars, other_vars>>

StencilTechniquePass ==
    /\ render.running /\ render.pass_index < Len(render.passes)
    /\ LET k == render.pass_index + 1
           r == StencilPass(render.passes[k], render.is_effect_stencil_cleared) IN
       render' = [render EXCEPT !.pass_index = k,
                                !.is_effect_stencil_cleared = r.is_effect_stencil_cleared,
                                !.log = Append(@, [cleared |-> r.cleared,
                                                   attached |-> r.attached])]
    /\ UNCHANGED <<registry_vars, cache_vars, uniform_vars, other_vars>>

StencilTechniqueEnd ==
    /\ render.running /\ render.pass_index = Len(render.passes)
    /\ render' = [render EXCEPT !.running = FALSE]
    /\ UNCHANGED <<registry_vars, cache_vars, uniform_vars, other_vars>>

NextStencil ==
    \/ \E n \in 1..MaxStencilPasses : \E infos \in [1..n -> StencilPassInfos] :
          StencilTechniqueBegin(infos)
    \/ StencilTechniquePass
    \/ StencilTechniqueEnd

SpecStencil == InitStencil /\ [][NextStencil]_vars

(* the pass has stencil enabled and a viewport of the back buffer's size *)
FullSizeStencilPass(pass) ==
    /\ pass.info.stencil_enable
    /\ pass.info.viewport_width = BufferWidth
    /\ pass.info.viewport_height = BufferHeight

(* C31: the shared depth-stencil buffer is cleared or attached by a        *)
(* graphics pass only if the pass has stencil enabled and its viewport    *)
(* has the size of the back buffer; a stencil pass with a smaller         *)
(* viewport neither clears nor attaches it.                               *)
C31_StencilOnlyAtFullSize ==
    \A k \in DOMAIN render.log :
        (render.log[k].cleared \/ render.log[k].attached)
            => FullSizeStencilPass(render.passes[k])

(* C31 as the code has it: the buffer is attached exactly by the stencil  *)
(* passes whose viewport has the size of the back buffer, in agreement    *)
(* with the depth-stencil format of the pipeline; it is cleared by the    *)
(* first graphics pass of the call that has stencil enabled, whatever its *)
(* viewport, and by no other pass.                                        *)
C31_AttachedOnlyAtFullSize ==
    \A k \in DOMAIN render.log :
        /\ render.log[k].attached <=>
              (~render.passes[k].info.cs /\ FullSizeStencilPass(render.passes[k]))
        /\ render.log[k].attached <=> render.passes[k].depth_stencil_format
        /\ render.log[k].cleared <=>
              /\ render.passes[k].info.stencil_enable
              /\ \A j \in 1..(k - 1) : ~render.passes[j].info.stencil_enable

(* a finished technique: a stencil pass into a small render target, which *)
(* clears the buffer without attaching it, then a stencil pass of full    *)
(* size, which attaches it without clearing it again                      *)
C31_Witness ==
    /\ ~render.running /\ Len(render.log) = 2
    /\ render.passes[1].info.stencil_enable /\ render.passes[1].info.has_render_target
    /\ render.passes[1].info.viewport_width < BufferWidth
    /\ render.log[1].cleared /\ ~render.log[1].attached
    /\ FullSizeStencilPass(render.passes[2])
    /\ render.log[2].attached /\ ~render.log[2].cleared

(* ===================== the timeout of a technique ======================= *)
(* One technique with a "timeout" annotation of timeout milliseconds, of  *)
(* an effect that is compiled and initialized, so that every frame        *)
(* renders it while it is enabled.  The variable transition holds the     *)
(* technique, _last_frame_duration (nanoseconds, as the clock counts) and *)
(* elapsed, the sum of the frame durations of the frames that rendered    *)
(* the technique since it was enabled.                                    *)
MaxTimeout == 3          \* the annotation, in milliseconds
MaxTimedFrames == 4      \* frames of one behaviour
NsPerMs == 1000000
FrameDurations == {400000, 1000000, 1900000}

(* std::chrono::duration_cast<std::chrono::milliseconds>(d).count() *)
CastToMilliseconds(d) == d \div NsPerMs

InitTimeout ==
    /\ InitRegistry /\ InitCacheOff /\ InitUniformOff /\ InitRenderOff
    /\ split = NoSplit /\ threads = NoThreads
    /\ \E timeout \in 1..MaxTimeout :
          transition = [enabled |-> FALSE, timeout |-> timeout, time_left |-> 0,
                        average_cpu_duration |-> 0, average_gpu_duration |-> 0,
                        last_frame_duration |-> NsPerMs,
                        elapsed |-> 0, frames |-> 0, op |-> "init"]

(* enable_technique(technique) *)
TimedEnableTechnique ==
    /\ transition' = [transition EXCEPT !.enabled = TRUE,
                                        !.time_left = transition.timeout,
                                        !.elapsed = IF transition.enabled THEN @ ELSE 0,
                                        !.op = "enable"]
    /\ UNCHANGED <<registry_vars, cache_vars, uniform_vars, render_vars, split_vars, thread_vars>>

(* disable_technique(technique) *)
TimedDisabled(t) ==
    [t EXCEPT !.enabled = FALSE, !.time_left = 0,
              !.average_cpu_duration = 0, !.average_gpu_duration = 0]

TimedDisableTechnique ==
    /\ transition' = [TimedDisabled(transition) EXCEPT !.op = "disable"]
    /\ UNCHANGED <<registry_vars, cache_vars, uniform_vars, render_vars, split_vars, thread_vars>>

(* the technique's turn in the loop of update_and_render_effects: render, *)
(* add a sample to the averages (gpu says whether a query result was      *)
(* there), count the timeout down by the last frame's duration            *)
TimedRender(t, gpu) ==
    IF ~t.enabled THEN t
    ELSE LET rendered == [t EXCEPT !.average_cpu_duration = @ + 1,
                                   !.average_gpu_duration = IF gpu THEN @ + 1 ELSE @,
                                   !.elapsed = @ + t.last_frame_duration]
             time_left == rendered.time_left - CastToMilliseconds(t.last_frame_duration)
         IN  IF rendered.time_left > 0
             THEN IF time_left <= 0
                  THEN TimedDisabled([rendered EXCEPT !.time_left = time_left])
                  ELSE [rendered EXCEPT !.time_left = time_left]
             ELSE rendered

(* a frame: update_and_render_effects, then on_present measures the       *)
(* duration of the frame                                                  *)
TimedFrame(duration, gpu) ==
    /\ transition.frames < MaxTimedFrames
    /\ transition' = [TimedRender(transition, gpu) EXCEPT
                          !.last_frame_duration = duration,
                          !.frames = @ + 1, !.op = "frame"]
    /\ UNCHANGED <<registry_vars, cache_vars, uniform_vars, render_vars, split_vars, thread_vars>>

NextTimeout ==
    \/ TimedEnableTechnique
    \/ TimedDisableTechnique
    \/ \E duration \in FrameDurations, gpu \in BOOLEAN : TimedFrame(duration, gpu)

SpecTimeout == InitTimeout /\ [][NextTimeout]_vars

(* C32: a technique with a timeout of N ms that every frame renders is    *)
(* disabled no later than the first frame at which the frame durations    *)
(* since it was enabled add up to N ms, whatever the durations are; when  *)
(* it is disabled its time_left is 0 and its timing averages are empty.   *)
C32_TimeoutExpiresInTime ==
    /\ (transition.enabled /\ transition.op = "frame")
          => transition.elapsed < transition.timeout * NsPerMs
    /\ ~transition.enabled
          => /\ transition.time_left = 0
             /\ transition.average_cpu_duration = 0
             /\ transition.average_gpu_duration = 0

(* the part on disabling alone *)
C32_DisableResets ==
    ~transition.enabled
        => /\ transition.time_left = 0
           /\ transition.average_cpu_duration = 0
           /\ transition.average_gpu_duration = 0

(* ======================== switch_to_next_preset ========================= *)
(* The directory of the filter path holds files 1..n in the order the     *)
(* directory iterator yields them; valid says whether resolve_preset_path *)
(* accepts a file, matches whether its name contains the filter text.     *)
(* _current_preset_path is one of the files or 0, a preset elsewhere.     *)
(* The variable split holds the directory, the current preset and the     *)
(* last two calls.                                                        *)
MaxPresets == 3

PresetFile(id, valid, matches) == [id |-> id, valid |-> valid, matches |-> matches]
Directories ==
    UNION {{[i \in 1..n |-> PresetFile(i, v[i], m[i])] :
               v \in [1..n -> BOOLEAN], m \in [1..n -> BOOLEAN]} : n \in 0..MaxPresets}

(* the loop over the directory: preset_paths and current_preset_index *)
RECURSIVE FindPresets(_, _, _, _, _)
FindPresets(dir, k, current, preset_paths, current_preset_index) ==
    IF k > Len(dir)
    THEN [preset_paths |-> preset_paths, current_preset_index |-> current_preset_index]
    ELSE IF ~dir[k].valid
         THEN FindPresets(dir, k + 1, current, preset_paths, current_preset_index)
         ELSE IF dir[k].id = current
              THEN FindPresets(dir, k + 1, current, Append(preset_paths, dir[k].id),
                               Len(preset_paths))
              ELSE IF dir[k].matches
                   THEN FindPresets(dir, k + 1, current, Append(preset_paths, dir[k].id),
                                    current_preset_index)
                   ELSE FindPresets(dir, k + 1, current, preset_paths, current_preset_index)

(* switch_to_next_preset choosing the neighbour without wrapping around *)
SwitchToNextPresetNoWrap(dir, current, reversed) ==
    LET found == FindPresets(dir, 1, current, <<>>, SizeMax)
        paths == found.preset_paths
        index == found.current_preset_index
    IN  IF paths = <<>>
        THEN [result |-> FALSE, current |-> current, preset_paths |-> paths, index |-> index]
        ELSE [result |-> TRUE, preset_paths |-> paths, index |-> index,
              current |->
                 IF index = SizeMax
                 THEN IF reversed THEN paths[Len(paths)] ELSE paths[1]
                 ELSE IF reversed
                      THEN IF index = 0 THEN paths[1] ELSE paths[index]
                      ELSE IF index = Len(paths) - 1 THEN paths[Len(paths)]
                           ELSE paths[index + 2]]

(* switch_to_next_preset(filter_path, reversed): the result, the new      *)
(* _current_preset_path and the list it was chosen from (indices of the   *)
(* code count from 0, those of a sequence from 1)                         *)
SwitchToNextPreset(dir, current, reversed) ==
    LET found == FindPresets(dir, 1, current, <<>>, SizeMax)
        paths == found.preset_paths
        index == found.current_preset_index
    IN  IF paths = <<>>
        THEN [result |-> FALSE, current |-> current, preset_paths |-> paths, index |-> index]
        ELSE [result |-> TRUE, preset_paths |-> paths, index |-> index,
              current |->
                 IF index = SizeMax
                 THEN IF reversed THEN paths[Len(paths)] ELSE paths[1]
                 ELSE IF reversed
                      THEN IF index = 0 THEN paths[Len(paths)] ELSE paths[index]
                      ELSE IF index = Len(paths) - 1 THEN paths[1]
                           ELSE paths[index + 2]]

InitPreset ==
    /\ InitRegistry /\ InitCacheOff /\ InitUniformOff /\ InitRenderOff
    /\ transition = NoTransition /\ threads = NoThreads
    /\ \E dir \in Directories, current \in 0..MaxPresets :
          split = [dir |-> dir, current_preset_path |-> current, calls |-> <<>>]

(* a call; calls keeps the last two *)
CallSwitchToNextPreset(reversed) ==
    /\ LET r == SwitchToNextPreset(split.dir, split.current_preset_path, reversed)
           call == [reversed |-> reversed, from |-> split.current_preset_path,
                    to |-> r.current, result |-> r.result,
                    preset_paths |-> r.preset_paths, index |-> r.index]
       IN  split' = [split EXCEPT
                        !.current_preset_path = r.current,
                        !.calls = IF @ = <<>> THEN <<call>> ELSE <<@[Len(@)], call>>]
    /\ UNCHANGED <<registry_vars, cache_vars, uniform_vars, render_vars, transition, thread_vars>>

NextPreset == \E reversed \in BOOLEAN : CallSwitchToNextPreset(reversed)

SpecPreset == InitPreset /\ [][NextPreset]_vars

(* what a single call has to do *)
SwitchedAsClaimed(call) ==
    LET n == Len(call.preset_paths) IN
    IF n = 0
    THEN ~call.result /\ call.to = call.from
    ELSE /\ call.result
         /\ IF \E i \in 0..(n - 1) : call.preset_paths[i + 1] = call.from
            THEN LET i == CHOOSE i \in 0..(n - 1) : call.preset_paths[i + 1] = call.from
                 IN  call.to = call.preset_paths[
                        (IF call.reversed THEN (i + n - 1) % n ELSE (i + 1) % n) + 1]
            ELSE call.to = call.preset_paths[IF call.reversed THEN n ELSE 1]

(* a forward call followed by a backward call over the same list *)
ForwardThenBackward ==
    /\ Len(split.calls) = 2
    /\ ~split.calls[1].reversed /\ split.calls[2].reversed
    /\ split.calls[1].result
    /\ split.calls[1].preset_paths = split.calls[2].preset_paths

(* C33: over a list of n >= 1 valid preset files switch_to_next_preset    *)
(* goes from index i to (i+1) mod n forward and (i-1) mod n backward,     *)
(* from a preset outside the list to the first (forward) or last          *)
(* (backward) file; with no valid file it returns false and keeps the     *)
(* current preset; a forward switch followed by a backward switch over    *)
(* an unchanged list ends at the original preset.                         *)
C33_SwitchIsCyclic ==
    /\ \A k \in DOMAIN split.calls : SwitchedAsClaimed(split.calls[k])
    /\ ForwardThenBackward => split.calls[2].to = split.calls[1].from

(* C33 with the round trip for a preset of the list: a forward switch     *)
(* followed by a backward switch over an unchanged list that holds the    *)
(* original preset ends at the original preset.                           *)
C33_SwitchIsCyclicWithinList ==
    /\ \A k \in DOMAIN split.calls : SwitchedAsClaimed(split.calls[k])
    /\ (ForwardThenBackward /\ split.calls[1].index # SizeMax)
          => split.calls[2].to = split.calls[1].from

(* from the last of three files forward to the first and back again *)
C33_Witness ==
    /\ ForwardThenBackward
    /\ Len(split.calls[1].preset_paths) = 3
    /\ split.calls[1].index = 2
    /\ split.calls[1].to = split.calls[1].preset_paths[1]
    /\ split.calls[2].index = 0
    /\ split.calls[2].to = split.calls[1].from

(* ================= uniform values of load_current_preset ================ *)
(* One uniform variable of some type and base type, with or without an    *)
(* initializer and a special source, in a preset that has a value for it  *)
(* or has none.  A storage word is [f, v]: the bits of the float v / 2    *)
(* (f) or of the integer v; all bits zero are both 0 and 0.0.  Numbers    *)
(* handed to and from the typed setters and getters are integers, or      *)
(* floats counted in halves.                                              *)
Word(f, v) == IF v = 0 THEN [f |-> FALSE, v |-> 0] ELSE [f |-> f, v |-> v]
FloatWord(h) == Word(TRUE, h)
IntWord(n) == Word(FALSE, n)
(* an uninitialized word of an alloca buffer *)
GarbageWord == [f |-> TRUE, v |-> 999]
(* reinterpret_cast of a word: the bits of a float read as an integer     *)
(* (and the other way round) are some other number                        *)
ReadInt(w) == IF w.f THEN 1000 + w.v ELSE w.v
ReadFloat(w) == IF w.f \/ w.v = 0 THEN w.v ELSE 1000 + w.v
(* static_cast<float>(int) and static_cast<int32_t>(float) *)
IntToFloat(n) == 2 * n
FloatToInt(h) == IF h >= 0 THEN h \div 2 ELSE -((-h) \div 2)

Renderers == {"d3d9", "d3d11", "opengl"}
BaseTypes == {"int", "uint", "float"}      \* t_bool goes the way of t_uint

(* force_floating_point_value(type, renderer_id) *)
ForceFloatingPointValue(type, renderer_id) ==
    \/ renderer_id = "d3d9"
    \/ type.is_matrix /\ renderer_id = "opengl"

StoredAsFloat(v, renderer_id) ==
    v.base = "float" \/ ForceFloatingPointValue(v.type, renderer_id)

Buffer(f(_)) == [d \in 0..(DataWords - 1) |-> f(d)]

(* set_uniform_value(variable, const int32_t * / const uint32_t *, count, array_index) *)
SetUniformInt(v, values, count, array_index, storage, renderer_id) ==
    IF StoredAsFloat(v, renderer_id)
    THEN SetUniformValue(v, Buffer(LAMBDA d : FloatWord(IntToFloat(values[d]))),
                         count * 4, array_index, storage)
    ELSE SetUniformValue(v, Buffer(LAMBDA d : IntWord(values[d])),
                         count * 4, array_index, storage)

(* set_uniform_value(variable, const float *, count, array_index) *)
SetUniformFloat(v, values, count, array_index, storage, renderer_id) ==
    IF StoredAsFloat(v, renderer_id)
    THEN SetUniformValue(v, Buffer(LAMBDA d : FloatWord(values[d])),
                         count * 4, array_index, storage)
    ELSE SetUniformValue(v, Buffer(LAMBDA d : IntWord(FloatToInt(values[d]))),
                         count * 4, array_index, storage)

(* get_uniform_value(variable, int32_t * / uint32_t *, count, array_index) *)
GetUniformInt(v, values, count, array_index, storage, renderer_id) ==
    IF v.base # "float" /\ ~ForceFloatingPointValue(v.type, renderer_id)
    THEN LET raw == GetUniformValue(v, Buffer(LAMBDA d : IntWord(values[d])),
                                    count * 4, array_index, storage)
         IN  Buffer(LAMBDA d : ReadInt(raw[d]))
    ELSE LET n    == Min({count, v.size \div 4})
             data == GetUniformValue(v, Buffer(LAMBDA d : GarbageWord),
                                     v.size, array_index, storage)
         IN  Buffer(LAMBDA d : IF d < n THEN FloatToInt(ReadFloat(data[d])) ELSE values[d])

(* get_uniform_value(variable, float *, count, array_index) *)
GetUniformFloat(v, values, count, array_index, storage, renderer_id) ==
    IF StoredAsFloat(v, renderer_id)
    THEN LET raw == GetUniformValue(v, Buffer(LAMBDA d : FloatWord(values[d])),
                                    count * 4, array_index, storage)
         IN  Buffer(LAMBDA d : ReadFloat(raw[d]))
    ELSE LET n    == Min({count, v.size \div 4})
             data == GetUniformValue(v, Buffer(LAMBDA d : GarbageWord),
                                     v.size, array_index, storage)
         IN  Buffer(LAMBDA d : IF d < n THEN IntToFloat(ReadInt(data[d])) ELSE values[d])

(* the typed setter and getter the switch on variable.type.base picks *)
SetTyped(v, values, count, array_index, storage, renderer_id) ==
    IF v.base = "float"
    THEN SetUniformFloat(v, values, count, array_index, storage, renderer_id)
    ELSE SetUniformInt(v, values, count, array_index, storage, renderer_id)

GetTyped(v, values, count, array_index, storage, renderer_id) ==
    IF v.base = "float"
    THEN GetUniformFloat(v, values, count, array_index, storage, renderer_id)
    ELSE GetUniformInt(v, values, count, array_index, storage, renderer_id)

(* the numbers of the effect file, of the preset file and of the user:    *)
(* initializer_value (array_data[i] for an array), the preset's entry,     *)
(* and what the user sets element i to                                    *)
InitializerValue(i) == Buffer(LAMBDA d : 10 * (i + 1) + d)
PresetValue == Buffer(LAMBDA d : 200 + d)
UserValue(i) == Buffer(LAMBDA d : 300 + 20 * i + d)

(* the element loop of reset_uniform_value from element i on *)
RECURSIVE ResetElements(_, _, _, _)
ResetElements(v, i, storage, renderer_id) ==
    IF i >= ArrayLength(v) THEN storage
    ELSE ResetElements(v, i + 1,
            SetTyped(v, InitializerValue(i), Components(v.type), i, storage, renderer_id),
            renderer_id)

(* reset_uniform_value(variable) *)
ResetUniformValue(v, storage, renderer_id) ==
    IF ~v.has_initializer_value
    THEN [w \in DOMAIN storage |->
            IF 4 * w >= v.offset /\ 4 * w < v.offset + v.size THEN IntWord(0)
            ELSE storage[w]]
    ELSE ResetElements(v, 0, storage, renderer_id)

(* reset_uniform_value that resets the first element alone *)
LoadPresetUniformFirstOnly(v, storage, renderer_id, in_preset) ==
    IF v.special THEN storage
    ELSE LET cleared == IF v.has_initializer_value
                       THEN SetTyped(v, InitializerValue(0), Components(v.type), 0,
                                     storage, renderer_id)
                       ELSE ResetUniformValue(v, storage, renderer_id)
             values == GetTyped(v, Buffer(LAMBDA d : 999), Components(v.type), 0,
                                cleared, renderer_id)
             chosen == IF in_preset
                       THEN Buffer(LAMBDA d : IF d < Components(v.type)
                                              THEN PresetValue[d] ELSE values[d])
                       ELSE values
         IN  SetTyped(v, chosen, Components(v.type), 0, cleared, renderer_id)

(* The body of the uniform loop of load_current_preset outside a preset   *)
(* transition: skip a special uniform, reset, read the value, take the    *)
(* preset's entry if there is one, write the value.                       *)
LoadPresetUniform(v, storage, renderer_id, in_preset) ==
    IF v.special THEN storage
    ELSE LET cleared == ResetUniformValue(v, storage, renderer_id)
             values == GetTyped(v, Buffer(LAMBDA d : 999), Components(v.type), 0,
                                cleared, renderer_id)
             chosen == IF in_preset
                       THEN Buffer(LAMBDA d : IF d < Components(v.type)
                                              THEN PresetValue[d] ELSE values[d])
                       ELSE values
         IN  SetTyped(v, chosen, Components(v.type), 0, cleared, renderer_id)

MaxPresetCalls == 3     \* calls made on the uniform in one behaviour

(* uniform_info::size as the code generator lays a variable out: every    *)
(* row of a matrix and every element of an array takes a 4-vector         *)
LayoutSize(t) ==
    IF t.is_matrix THEN 16 * t.rows * (IF t.is_array THEN t.array_length ELSE 1)
    ELSE IF t.is_array /\ t.array_length > 1 THEN 16 * t.array_length
    ELSE 4 * t.rows

(* the variable after load_effect: the storage holds the initializer *)
InitPresetValues ==
    /\ InitRegistry /\ InitCacheOff /\ InitRenderOff /\ InitOthersOff
    /\ \E t \in UniformTypes, base \in BaseTypes, special, init, in_preset \in BOOLEAN,
          renderer_id \in Renderers :
          /\ ValidType(t)
          /\ variable = [type |-> t, offset |-> 16, size |-> LayoutSize(t), base |-> base,
                         special |-> special, has_initializer_value |-> init]
          /\ ucalls = [op |-> "none", calls |-> 0, renderer_id |-> renderer_id,
                       in_preset |-> in_preset, before |-> <<>>]
    /\ uniform_data_storage =
          ResetUniformValue(variable,
                            [w \in 0..(StorageWords(variable) - 1) |-> IntWord(0)],
                            ucalls.renderer_id)

(* the user (or the special source) gives element i a value *)
UserSetsUniform(i) ==
    /\ ucalls.calls < MaxPresetCalls
    /\ i < ArrayLength(variable)
    /\ uniform_data_storage' =
          SetTyped(variable, UserValue(i), Components(variable.type), i,
                   uniform_data_storage, ucalls.renderer_id)
    /\ ucalls' = [ucalls EXCEPT !.op = "set", !.calls = @ + 1]
    /\ UNCHANGED <<variable, registry_vars, cache_vars, render_vars, other_vars>>

(* load_current_preset, as far as the uniform goes *)
LoadPresetValues ==
    /\ ucalls.calls < MaxPresetCalls
    /\ uniform_data_storage' =
          LoadPresetUniform(variable, uniform_data_storage, ucalls.renderer_id,
                            ucalls.in_preset)
    /\ ucalls' = [ucalls EXCEPT !.op = "load_current_preset", !.calls = @ + 1,
                                !.before = uniform_data_storage]
    /\ UNCHANGED <<variable, registry_vars, cache_vars, render_vars, other_vars>>

NextPresetValues ==
    \/ \E i \in 0..(MaxArrayLength - 1) : UserSetsUniform(i)
    \/ LoadPresetValues

SpecPresetValues == InitPresetValues /\ [][NextPresetValues]_vars

(* where component (row, col) of element a is kept *)
ComponentWord(v, a, row, col) ==
    (IF v.type.is_matrix THEN v.offset + 16 * (a * v.type.rows + row) + 4 * col
     ELSE IF ArrayLength(v) > 1 THEN v.offset + 16 * a + 4 * row
     ELSE v.offset + 4 * row) \div 4

(* the word that stands for number x of the variable's base type *)
WordOf(v, x, renderer_id) ==
    IF v.base = "float" THEN FloatWord(x)
    ELSE IF ForceFloatingPointValue(v.type, renderer_id) THEN FloatWord(IntToFloat(x))
    ELSE IntWord(x)

(* the number component d of element a ought to hold after the call *)
ExpectedNumber(v, a, d, in_preset) ==
    IF a = 0 /\ in_preset THEN PresetValue[d]
    ELSE IF v.has_initializer_value THEN InitializerValue(a)[d]
    ELSE 0

(* C34: after load_current_preset outside a preset transition a uniform   *)
(* without special source holds the preset's value when the preset has    *)
(* one and its initializer (zero without one) otherwise, whatever it held *)
(* before; the storage of a special uniform is as it was before the call. *)
C34_PresetValuesLoaded ==
    ucalls.op = "load_current_preset" =>
       IF variable.special
       THEN uniform_data_storage = ucalls.before
       ELSE \A a \in 0..(ArrayLength(variable) - 1), row \in 0..(variable.type.rows - 1),
               col \in 0..(variable.type.cols - 1) :
               uniform_data_storage[ComponentWord(variable, a, row, col)]
                  = WordOf(variable,
                           ExpectedNumber(variable, a, row * variable.type.cols + col,
                                          ucalls.in_preset),
                           ucalls.renderer_id)

(* a matrix array of integers under OpenGL, kept as floats: the user had  *)
(* set both elements; the call has put the preset's value into the first  *)
(* element and the initializer back into the second                       *)
C34_Witness ==
    /\ ucalls.op = "load_current_preset" /\ ucalls.in_preset
    /\ ~variable.special /\ variable.has_initializer_value
    /\ variable.type.is_matrix /\ variable.type.rows = 3 /\ variable.type.cols = 3
    /\ ArrayLength(variable) = 2
    /\ variable.base = "int" /\ ucalls.renderer_id = "opengl"
    /\ ucalls.before[ComponentWord(variable, 0, 2, 2)] = FloatWord(IntToFloat(UserValue(0)[8]))
    /\ ucalls.before[ComponentWord(variable, 1, 2, 2)] = FloatWord(IntToFloat(UserValue(1)[8]))
    /\ uniform_data_storage[ComponentWord(variable, 0, 2, 2)] = FloatWord(IntToFloat(PresetValue[8]))
    /\ uniform_data_storage[ComponentWord(variable, 1, 2, 2)]
          = FloatWord(IntToFloat(InitializerValue(1)[8]))

(* ================== de-duplication of the error lines =================== *)
(* The loop of update_and_render_effects over effect.errors after         *)
(* init_effect.  A text is a sequence of characters; "X" stands for the   *)
(* warning number X3579.  Offsets count from 0 as in the code, NPos is    *)
(* std::string::npos.  The variable loaded holds the text before and      *)
(* after the loop.                                                        *)
MaxErrorLength == 5
NewLine == "\n"
ErrorChars == {"a", "b", "X", NewLine}
ErrorTexts == UNION {[1..n -> ErrorChars] : n \in 0..MaxErrorLength}
NPos == SizeMax

(* errors.find('\n', from) *)
FindNewLine(text, from) ==
    LET hits == {p \in 0..(Len(text) - 1) : p >= from /\ text[p + 1] = NewLine}
    IN  IF hits = {} THEN NPos ELSE Min(hits)

(* errors.erase(pos, count) *)
Erase(text, pos, count) == SubSeq(text, 1, pos) \o SubSeq(text, pos + count + 1, Len(text))

(* cur_line.find("X3579") != npos *)
HasX3579(line) == \E i \in DOMAIN line : line[i] = "X"

(* The loop from line_offset on: the next line is erased when it equals   *)
(* the current one, the current one when it has the warning number, and   *)
(* either way the same offset is looked at again.                         *)
RECURSIVE DeduplicateLines(_, _)
DeduplicateLines(errors, line_offset) ==
    LET next_line_offset == FindNewLine(errors, line_offset) IN
    IF next_line_offset = NPos THEN errors
    ELSE LET cur_line   == SubSeq(errors, line_offset + 1, next_line_offset)
             end_offset == FindNewLine(errors, next_line_offset + 1)
             equal      == /\ end_offset # NPos
                           /\ cur_line = SubSeq(errors, next_line_offset + 2, end_offset)
             errors1    == IF equal
                           THEN Erase(errors, next_line_offset, end_offset - next_line_offset)
                           ELSE errors
             offset1    == IF equal THEN line_offset - 1 ELSE next_line_offset
             errors2    == IF HasX3579(cur_line)
                           THEN Erase(errors1, line_offset, offset1 + 1 - line_offset)
                           ELSE errors1
             offset2    == IF HasX3579(cur_line) THEN line_offset - 1 ELSE offset1
         IN  DeduplicateLines(errors2, offset2 + 1)

InitErrors ==
    /\ InitRegistry /\ InitUniformOff /\ InitRenderOff /\ InitOthersOff
    /\ no_effect_cache = FALSE /\ cache_files = {}
    /\ \E text \in ErrorTexts : loaded = [op |-> "init_effect", input |-> text, errors |-> text]

(* the loop as a step of the compile-queue processing *)
DeduplicateErrors ==
    /\ loaded.op = "init_effect"
    /\ loaded' = [loaded EXCEPT !.op = "deduplicated",
                                !.errors = DeduplicateLines(loaded.errors, 0)]
    /\ UNCHANGED <<registry_vars, no_effect_cache, cache_files, uniform_vars, render_vars,
                   other_vars>>

NextErrors == DeduplicateErrors

SpecErrors == InitErrors /\ [][NextErrors]_vars

(* the lines of a text: what ends with a newline, and what follows the    *)
(* last newline if anything does                                          *)
RECURSIVE LinesOf(_)
LinesOf(text) ==
    LET nl == FindNewLine(text, 0) IN
    IF nl = NPos THEN (IF text = <<>> THEN <<>> ELSE <<text>>)
    ELSE <<SubSeq(text, 1, nl)>> \o LinesOf(SubSeq(text, nl + 2, Len(text)))

(* a list of lines with every run of equal lines taken as one *)
RECURSIVE Collapsed(_)
Collapsed(lines) ==
    IF Len(lines) <= 1 THEN lines
    ELSE IF lines[1] = lines[2] THEN Collapsed(Tail(lines))
    ELSE <<lines[1]>> \o Collapsed(Tail(lines))

NoEqualNeighbours(lines) ==
    \A i \in 1..(Len(lines) - 1) : lines[i] # lines[i + 1]

(* C35: after the de-duplication the error text has no two identical      *)
(* consecutive lines, whatever the text was (runs of three and more, a    *)
(* last line without a newline), and every distinct line of the input is  *)
(* still there, in the order of the input.                                *)
C35_NoRepeatedErrorLines ==
    loaded.op = "deduplicated" =>
       /\ NoEqualNeighbours(LinesOf(loaded.errors))
       /\ LinesOf(loaded.errors) = Collapsed(LinesOf(loaded.input))

(* ====================== the timestamp query slots ======================= *)
(* One effect with its techniques initialized by init_effect, and the     *)
(* frames that render some of them with or without GPU statistics.  The   *)
(* variable render holds _framecount, the query pool (for every slot the  *)
(* frame that wrote it last, -1 for none) and what every technique read   *)
(* and wrote in the last frame.                                           *)
MaxQueryTechniques == 2     \* techniques of the effect
MaxQueryFrames == 6         \* frames of one behaviour
NUM_QUERY_FRAMES == 4

(* create_query_pool(timestamp, techniques.size() * 2 * NUM_QUERY_FRAMES) *)
QueryPoolSize(n) == n * 2 * NUM_QUERY_FRAMES
(* technique.query_base_index = technique_index++ * 2 * NUM_QUERY_FRAMES *)
QueryBaseIndex(technique_index) == technique_index * 2 * NUM_QUERY_FRAMES

(* the first slot of get_query_results reading the pair of this frame *)
QueryReadIndexThisFrame(base, framecount) == base + (framecount % NUM_QUERY_FRAMES) * 2

(* the first slot of the pair get_query_results reads *)
QueryReadIndex(base, framecount) == base + ((framecount + 1) % NUM_QUERY_FRAMES) * 2
(* the slots of the two finish_query calls *)
QueryBeginIndex(base, framecount) == base + (framecount % NUM_QUERY_FRAMES) * 2
QueryEndIndex(base, framecount) == base + (framecount % NUM_QUERY_FRAMES) * 2 + 1

(* slots of the model's pool; those from the pool's size on do not exist *)
QuerySlots == 0..(QueryPoolSize(MaxQueryTechniques) + 2 * NUM_QUERY_FRAMES)

NoQuery == [used |-> FALSE, read |-> 0, begin |-> 0, end |-> 0, data |-> <<-1, -1>>]

InitQueries ==
    /\ InitRegistry /\ InitCacheOff /\ InitUniformOff /\ InitOthersOff
    /\ \E n \in 1..MaxQueryTechniques :
          render = [framecount |-> 0, frames |-> 0,
                    pool_size |-> QueryPoolSize(n),
                    query_base_index |-> [t \in 1..n |-> QueryBaseIndex(t - 1)],
                    pool |-> [i \in QuerySlots |-> -1],
                    queries |-> [t \in 1..n |-> NoQuery]]

(* render_technique for the techniques from t on, one after the other:    *)
(* read the pair of the oldest frame, then stamp begin and end            *)
RECURSIVE RenderQueries(_, _, _)
RenderQueries(r, t, enabled) ==
    IF t > Len(r.query_base_index) THEN r
    ELSE IF t \notin enabled
         THEN RenderQueries([r EXCEPT !.queries[t] = NoQuery], t + 1, enabled)
         ELSE LET base  == r.query_base_index[t]
                  read  == QueryReadIndex(base, r.framecount)
                  begin == QueryBeginIndex(base, r.framecount)
                  end   == QueryEndIndex(base, r.framecount)
              IN  RenderQueries(
                     [r EXCEPT !.queries[t] = [used |-> TRUE, read |-> read,
                                               begin |-> begin, end |-> end,
                                               data |-> <<r.pool[read], r.pool[read + 1]>>],
                               !.pool[begin] = r.framecount,
                               !.pool[end] = r.framecount],
                     t + 1, enabled)

(* a frame: update_and_render_effects renders the enabled techniques,     *)
(* with _gather_gpu_statistics on or off, and on_present counts the frame *)
QueryFrame(gather, enabled) ==
    /\ render.frames < MaxQueryFrames
    /\ render' = [RenderQueries(render, 1, IF gather THEN enabled ELSE {}) EXCEPT
                     !.framecount = @ + 1, !.frames = @ + 1]
    /\ UNCHANGED <<registry_vars, cache_vars, uniform_vars, other_vars>>

NextQueries ==
    \E gather \in BOOLEAN, enabled \in SUBSET (1..MaxQueryTechniques) :
       QueryFrame(gather, enabled)

SpecQueries == InitQueries /\ [][NextQueries]_vars

(* the frame the queries of render were made in *)
QueryFrameCount == render.framecount - 1

(* C36: with GPU statistics on, a technique stamps slots                  *)
(* base + 2*(f mod 4) and base + 2*(f mod 4) + 1 in frame f and reads the *)
(* pair at base + 2*((f+1) mod 4), which is not the pair it stamps in     *)
(* that frame but the pair of frame f - 3 (and holds the stamps of frame  *)
(* f - 3 if the technique made them); every slot lies in the pool of 8    *)
(* queries per technique, and the slots of two techniques differ.         *)
C36_QueriesReadThreeFramesBack ==
    \A t \in DOMAIN render.queries :
       LET q    == render.queries[t]
           f    == QueryFrameCount
           base == render.query_base_index[t]
       IN  q.used =>
              /\ q.begin = base + 2 * (f % 4) /\ q.end = base + 2 * (f % 4) + 1
              /\ q.read = base + 2 * ((f + 1) % 4)
              /\ q.read # q.begin
              /\ f >= 3 => q.read = QueryBeginIndex(base, f - 3)
              /\ q.data[1] = q.data[2]
              /\ q.data[1] # f
              /\ q.data[1] # -1 => (q.data[1] <= f - 3 /\ (f - 3 - q.data[1]) % 4 = 0)
              /\ \A i \in {q.read, q.read + 1, q.begin, q.end} :
                    /\ i >= 0 /\ i < render.pool_size
                    /\ i >= 8 * (t - 1) /\ i < 8 * t
              /\ \A u \in DOMAIN render.queries :
                    (u # t /\ render.queries[u].used) =>
                       {q.read, q.read + 1, q.begin, q.end}
                          \cap {render.queries[u].read, render.queries[u].read + 1,
                                render.queries[u].begin, render.queries[u].end} = {}

(* the second of two techniques in its fourth frame with statistics reads *)
(* the stamps of its first                                                *)
C36_Witness ==
    /\ Len(render.queries) = 2 /\ render.queries[1].used /\ render.queries[2].used
    /\ QueryFrameCount = 4
    /\ render.queries[2].data = <<1, 1>>
    /\ render.queries[2].read = 10 /\ render.queries[2].begin = 8
    /\ render.queries[1].data = <<-1, -1>>

(* ========================== pooled textures ============================= *)
(* The texture loop of load_effect's merge step for effects that declare  *)
(* pooled textures.  A declaration has a unique name, a description       *)
(* (size, format, levels: one number) and the "pooled" annotation; none   *)
(* has a semantic.  The variable loaded holds the registry (_textures)    *)
(* and, for every loaded effect, its declarations and the registry        *)
(* texture each of them refers to after the merge (the texture_name of    *)
(* its samplers, storages and render targets).                            *)
MaxPoolTextures == 2    \* texture declarations of one effect
PoolNames == {"A", "B", "C"}
PoolDescriptions == {1, 2}

PoolDeclarations == [name : PoolNames, desc : PoolDescriptions, pooled : BOOLEAN]
(* the texture lists of a module: unique names are unique *)
PoolModules ==
    {m \in UNION {[1..n -> PoolDeclarations] : n \in 0..MaxPoolTextures} :
        \A i, j \in DOMAIN m : i # j => m[i].name # m[j].name}

(* the first element of a sequence that satisfies Test, 0 for none *)
FindIf(seq, Test(_)) ==
    LET hits == {k \in DOMAIN seq : Test(seq[k])} IN IF hits = {} THEN 0 ELSE Min(hits)

(* existing_texture->shared gets the effect, the texture becomes a render *)
(* target with storage access                                             *)
ShareTexture(texs, k, e) ==
    [texs EXCEPT ![k].shared = IF Contains(@, e) THEN @ ELSE Append(@, e),
                 ![k].render_target = TRUE]

(* The texture loop from declaration i on; refs collects the name of the  *)
(* registry texture every declaration ends up with.                       *)
RECURSIVE MergePooledTextures(_, _, _, _, _)
MergePooledTextures(decls, i, e, texs, refs) ==
    IF i > Len(decls) THEN [textures |-> texs, refs |-> refs]
    ELSE LET d      == decls[i]
             byname == FindIf(texs, LAMBDA item : item.name = d.name)
             pool   == FindIf(texs, LAMBDA item : /\ item.pooled
                                                  /\ item.effect_index # e
                                                  /\ item.desc = d.desc)
         IN  IF byname # 0
             THEN MergePooledTextures(decls, i + 1, e, ShareTexture(texs, byname, e),
                                      Append(refs, d.name))
             ELSE IF d.pooled /\ pool # 0
             THEN MergePooledTextures(decls, i + 1, e, ShareTexture(texs, pool, e),
                                      Append(refs, texs[pool].name))
             ELSE MergePooledTextures(decls, i + 1, e,
                     Append(texs, [name |-> d.name, desc |-> d.desc, pooled |-> d.pooled,
                                   effect_index |-> e, shared |-> <<e>>,
                                   render_target |-> FALSE]),
                     Append(refs, d.name))

InitPool ==
    /\ InitRegistry /\ InitUniformOff /\ InitRenderOff /\ InitOthersOff
    /\ no_effect_cache = FALSE /\ cache_files = {}
    /\ loaded = [textures |-> <<>>, done |-> {},
                 decls |-> [e \in Effects |-> <<>>], refs |-> [e \in Effects |-> <<>>]]

(* load_effect of file e in the first load cycle, as far as textures go *)
LoadEffectPooled(e, module) ==
    /\ e \notin loaded.done
    /\ LET r == MergePooledTextures(module, 1, e, loaded.textures, <<>>) IN
       loaded' = [textures |-> r.textures, done |-> loaded.done \cup {e},
                  decls |-> [loaded.decls EXCEPT ![e] = module],
                  refs |-> [loaded.refs EXCEPT ![e] = r.refs]]
    /\ UNCHANGED <<registry_vars, no_effect_cache, cache_files, uniform_vars, render_vars,
                   other_vars>>

NextPool == \E e \in Effects, module \in PoolModules : LoadEffectPooled(e, module)

SpecPool == InitPool /\ [][NextPool]_vars

(* the registry texture declaration i of effect e refers to *)
PoolTextureOf(e, i) ==
    loaded.textures[FindIf(loaded.textures, LAMBDA item : item.name = loaded.refs[e][i])]

(* declaration i of effect e was redirected to a pooled texture *)
Redirected(e, i) == loaded.refs[e][i] # loaded.decls[e][i].name

(* C37: a pooled texture declaration is merged only with a texture of     *)
(* another effect, and after the merge no two texture declarations of one *)
(* effect refer to the same registry texture (two pooled textures of one  *)
(* effect with the same description do not both end up with the same      *)
(* pooled texture of another effect).                                     *)
C37_PooledTexturesStayApart ==
    \A e \in loaded.done :
       /\ \A i \in DOMAIN loaded.refs[e] :
             Redirected(e, i) => PoolTextureOf(e, i).effect_index # e
       /\ \A i, j \in DOMAIN loaded.refs[e] :
             i # j => loaded.refs[e][i] # loaded.refs[e][j]

(* the first part alone *)
C37_MergedWithOtherEffect ==
    \A e \in loaded.done : \A i \in DOMAIN loaded.refs[e] :
       Redirected(e, i) => PoolTextureOf(e, i).effect_index # e

(* ------------------ a texture with another semantic -------------------- *)
(* the step is a load_effect of effect e whose merge step ran and failed: *)
(* a texture name was registered with another semantic                    *)
MergeFailed(e) ==
    /\ last'.op = "load_effect" /\ last'.effect = e
    /\ e \in DOMAIN effects'
    /\ effects'[e].merged /\ ~effects'[e].compiled
    /\ "semantic" \in effects'[e].errors

(* C38: when load_effect fails in the merge step because a texture name   *)
(* is registered with a different semantic, the registry is as it was     *)
(* before the call: no texture of the effect was added, no texture's      *)
(* shared list and flags were changed for it, and none of its techniques  *)
(* is registered.                                                         *)
C38_FailedMergeLeavesRegistry ==
    [][\A e \in Effects :
          MergeFailed(e) => (textures' = textures /\ techniques' = techniques)]_vars

(* the part that holds: the effect is left not compiled, with the error   *)
(* in its text, and none of its techniques is enabled or queued           *)
C38_FailedMergeDisablesEffect ==
    [][\A e \in Effects :
          MergeFailed(e) =>
             /\ queue' = queue
             /\ \A i \in DOMAIN techniques' :
                   techniques'[i].effect_index = e => ~techniques'[i].enabled]_vars

(* ------------- descriptors of textures bound by semantic --------------- *)
(* the live descriptors that effect e created for a texture with a         *)
(* semantic, as listed in its texture_semantic_to_binding                  *)
SemanticDescriptors(e) ==
    {j \in DOMAIN effects[e].semantic_to_binding :
        BindingKey(effects[e].semantic_to_binding[j]) \in DOMAIN desc}

(* C39: after any sequence of init_effect and update_texture_bindings     *)
(* calls, every descriptor created for a semantic texture holds the view  *)
(* currently bound for that semantic, or the empty placeholder view when  *)
(* none is bound; it never holds a null view, also after a call of        *)
(* update_texture_bindings with a null view.                              *)
C39_SemanticDescriptorsHoldBoundView ==
    \A e \in DOMAIN effects :
        \A j \in SemanticDescriptors(e) :
            LET sb == effects[e].semantic_to_binding[j] IN
            /\ desc[BindingKey(sb)] # NullView
            /\ desc[BindingKey(sb)] =
                  (IF bindings[sb.semantic] # NullView THEN bindings[sb.semantic]
                   ELSE EmptyView)
====
